---- MODULE Spec2Model ----
(***************************************************************************)
(* Struggle-detection pipeline of the mentorship backend:                  *)
(*   StruggleSignalService.extractSignalsFromInteraction  (Signal Extractor)*)
(*   StruggleScoringService.recomputeForUser              (Score Aggregator)*)
(*   TutorAlertService.createAlertsIfNeeded               (Alert Dispatcher)*)
(* over the MongoDB collections AIInteraction, StruggleSignal,             *)
(* StruggleProfile, TutorCareNetwork and TutorAlert.                       *)
(*                                                                         *)
(* Every service method is async: each await of a database call is a point *)
(* where another request handler may run, so a method is one action per    *)
(* database call (the synchronous code after the call belongs to the same  *)
(* action).                                                                *)
(*                                                                         *)
(* Numbers.  Time is in hours.  A signal magnitude v in [0,1] is kept as   *)
(* the integer v * Scale, a weight w as w * 100, a struggle score as       *)
(* score * 10 (the code rounds scores to one decimal).  The code computes  *)
(* in IEEE-754 doubles; the model computes exactly and follows the double  *)
(* result where the two differ (DoubleTiesBelow, DoubleBelowHalfLess).     *)
(***************************************************************************)
EXTENDS Integers, Sequences, FiniteSets, Bags, TLC

VARIABLES
    now,            \* Date.now(), in hours
    interactions,   \* AIInteraction collection: sequence of documents, _id = index
    signals,        \* StruggleSignal collection: bag of documents
    profileDocs,    \* StruggleProfile collection: bag of documents
    network,        \* TutorCareNetwork collection: studentId -> tutorIds array
    alerts,         \* TutorAlert collection: sequence of documents, _id = index
    proc            \* per request handler: position (pc) and locals of the running call

vars == <<now, interactions, signals, profileDocs, network, alerts, proc>>

-----------------------------------------------------------------------------
(* Bounds of the model *)

MaxTime == 36
TickHours == 12
MaxPasses == 2
MaxInteractions == 2
MaxAlerts == 4
MaxAlertPasses == 1

Students == {"s1"}
Tutors == {"t1", "t2"}
Procs == {"p1", "p2"}

-----------------------------------------------------------------------------
(* Program constants *)

COOLDOWN_HOURS == 24
WINDOW_HOURS == 24
FIND_LIMIT == 100
BASELINE_SAMPLE == 30

Scale == 4 * 3 * 7 * 11

Kinds == {"REPEATED_TOPIC", "FAILED_ATTEMPT", "NEGATIVE_SENTIMENT",
          "ENGAGEMENT_DROP", "LONG_RESPONSE_TIME", "HINT_DEPENDENCY"}

\* Object.entries(WEIGHTS): the insertion order of the weight table
\* variant: the table lists the lightest kind first
WeightOrder_HintFirst == <<"HINT_DEPENDENCY", "REPEATED_TOPIC", "FAILED_ATTEMPT",
                           "NEGATIVE_SENTIMENT", "ENGAGEMENT_DROP",
                           "LONG_RESPONSE_TIME">>

\* Object.entries(WEIGHTS): the kinds in the order the table lists them
WeightOrder == <<"REPEATED_TOPIC", "FAILED_ATTEMPT", "NEGATIVE_SENTIMENT",
                 "ENGAGEMENT_DROP", "LONG_RESPONSE_TIME", "HINT_DEPENDENCY">>

\* variant: a weight table summing to 1.10
WEIGHTS_Inflated == [REPEATED_TOPIC |-> 35, FAILED_ATTEMPT |-> 20,
                     NEGATIVE_SENTIMENT |-> 15, ENGAGEMENT_DROP |-> 15,
                     LONG_RESPONSE_TIME |-> 15, HINT_DEPENDENCY |-> 10]

WEIGHTS == [REPEATED_TOPIC |-> 25, FAILED_ATTEMPT |-> 20,
            NEGATIVE_SENTIMENT |-> 15, ENGAGEMENT_DROP |-> 15,
            LONG_RESPONSE_TIME |-> 15, HINT_DEPENDENCY |-> 10]

\* signalType.replace(/_/g, " ").toLowerCase()
Label == [REPEATED_TOPIC |-> "repeated topic", FAILED_ATTEMPT |-> "failed attempt",
          NEGATIVE_SENTIMENT |-> "negative sentiment",
          ENGAGEMENT_DROP |-> "engagement drop",
          LONG_RESPONSE_TIME |-> "long response time",
          HINT_DEPENDENCY |-> "hint dependency"]

ALERT_TEMPLATE == "A learner you helped before may benefit from support."

-----------------------------------------------------------------------------
(* Helpers *)

MaxOf(S) == CHOOSE x \in S : \A y \in S : y <= x
MinNat(a, b) == IF a <= b THEN a ELSE b
MaxNat(a, b) == IF a >= b THEN a ELSE b

RECURSIVE SumOver(_, _)
SumOver(f, S) ==
    IF S = {} THEN 0
    ELSE LET k == CHOOSE x \in S : TRUE IN f[k] + SumOver(f, S \ {k})

-----------------------------------------------------------------------------
(* The StruggleProfile collection as its readers see it *)

\* the fields of a profile document that recomputeForUser writes
ProfileData(d) ==
    [struggleScore |-> d.struggleScore, trend |-> d.trend,
     supportLevel |-> d.supportLevel, contributingSignals |-> d.contributingSignals,
     lastReasonSummary |-> d.lastReasonSummary]

\* StruggleProfile.findOne({userId}).lean(), for every userId with a document
profiles ==
    [u \in {d.userId : d \in BagToSet(profileDocs)} |->
        ProfileData(CHOOSE d \in BagToSet(profileDocs) : d.userId = u)]

-----------------------------------------------------------------------------
(* StruggleScoringService.recomputeForUser: the computation *)

\* variant: only the signals of the newest interaction are read
SignalsInWindow_LatestOnly(u, t) ==
    {s \in BagToSet(signals) :
        /\ s.userId = u
        /\ s.createdAt >= t - WINDOW_HOURS
        /\ \A x \in BagToSet(signals) : x.interactionId <= s.interactionId}

\* StruggleSignal.find({userId, createdAt: {$gte: since}})
SignalsInWindow(u, t) ==
    {s \in BagToSet(signals) : s.userId = u /\ s.createdAt >= t - WINDOW_HOURS}

\* variant: the magnitudes of a kind summed, not their maximum
Aggregate_Sum(sigs) ==
    [k \in Kinds |->
        SumOver([s \in {x \in sigs : x.signalType = k} |-> s.value],
                {x \in sigs : x.signalType = k})]

\* aggregated[s.signalType] = Math.max(aggregated[s.signalType] || 0, s.value);
\* read back as aggregated[type] || 0
Aggregate(sigs) ==
    [k \in Kinds |-> MaxOf({0} \cup {s.value : s \in {x \in sigs : x.signalType = k}})]

\* rawScore += weight * value, in units of 1 / (100 * Scale)
RawScore(agg) == SumOver([k \in Kinds |-> WEIGHTS[k] * agg[k]], Kinds)

\* contributingSignals.push({signalType, weight, value}) for value > 0, in table order
Contributing(agg) ==
    LET ks == SelectSeq(WeightOrder, LAMBDA k : agg[k] > 0)
    IN  [i \in 1..Len(ks) |->
            [signalType |-> ks[i], weight |-> WEIGHTS[ks[i]], value |-> agg[ks[i]]]]

\* Aggregates (in table order) whose exact (1 + raw * 9) * 10 ends in .5 and whose
\* double evaluation, summing weight * value in table order, falls just below it,
\* so that Math.round rounds down.  Evaluated in IEEE-754 doubles for every
\* aggregate over the magnitudes the extraction rules yield for topic counts 3..5,
\* lexicon scores -2/3 and -1, engagement ratios 1/3, 1/4 and 0, latency ratios
\* 1.5, 1.8, 2.3 and >= 2.5, and hint counts 1..8.
DoubleTiesBelow ==
    { <<0, 0, 0, 0, 924, 0>>, <<0, 0, 0, 748, 0, 264>>, <<0, 0, 0, 748, 264, 792>>,
      <<0, 0, 0, 748, 792, 0>>, <<0, 0, 0, 924, 0, 0>>, <<0, 0, 0, 924, 264, 528>>,
      <<0, 0, 924, 0, 0, 0>>, <<0, 0, 924, 0, 264, 528>>,
      <<0, 0, 924, 924, 924, 924>>, <<0, 924, 0, 748, 792, 924>>,
      <<0, 924, 0, 924, 792, 660>>, <<0, 924, 924, 0, 792, 660>>,
      <<462, 0, 0, 858, 264, 396>>, <<462, 924, 0, 858, 264, 396>>,
      <<462, 924, 0, 924, 462, 0>>, <<462, 924, 924, 0, 462, 0>>,
      <<462, 924, 924, 858, 924, 792>>, <<924, 0, 0, 858, 462, 792>>,
      <<924, 924, 0, 924, 924, 924>>, <<924, 924, 924, 0, 924, 924>>,
      <<924, 924, 924, 748, 264, 792>>, <<924, 924, 924, 748, 792, 0>>,
      <<924, 924, 924, 748, 792, 924>>, <<924, 924, 924, 924, 0, 924>>,
      <<924, 924, 924, 924, 264, 528>>, <<924, 924, 924, 924, 792, 660>> }

\* Math.round((1 + rawScore * 9) * 10): floor(x + 1/2) of the double x
RoundedTimes10(agg) ==
    LET den == 100 * Scale
        num == 1000 * Scale + 90 * RawScore(agg)
        half == (2 * num + den) \div (2 * den)
    IN  IF [i \in 1..6 |-> agg[WeightOrder[i]]] \in DoubleTiesBelow
        THEN half - 1 ELSE half

\* Math.min(10, Math.max(1, Math.round((1 + rawScore * 9) * 10) / 10)), times 10
ScoreOf(agg) == MinNat(100, MaxNat(10, RoundedTimes10(agg)))

\* prev - 0.5 in doubles is above the double of the decimal (prev - 0.5) for these
\* previous scores, so a new score exactly 0.5 lower compares as smaller
DoubleBelowHalfLess == { <<22, 17>>, <<44, 39>>, <<83, 78>> }

\* variant: a score that did not fall counts as risen
ScoreAbove_NotBelow(new, prev) == new >= prev

\* struggleScore > prevProfile.struggleScore + 0.5
ScoreAbove(new, prev) == new > prev + 5

\* struggleScore < prevProfile.struggleScore - 0.5
ScoreBelow(new, prev) == new < prev - 5 \/ <<prev, new>> \in DoubleBelowHalfLess

\* let trend = "STABLE"; if (prevProfile) { ... }
TrendOf(u, new) ==
    IF u \notin DOMAIN profiles THEN "STABLE"
    ELSE IF ScoreAbove(new, profiles[u].struggleScore) THEN "UP"
    ELSE IF ScoreBelow(new, profiles[u].struggleScore) THEN "DOWN"
    ELSE "STABLE"

\* variant: thresholds exclusive
SupportLevelOf_Exclusive(score) ==
    IF score > 70 THEN "HIGH" ELSE IF score > 40 THEN "MEDIUM" ELSE "LOW"

\* let supportLevel = "LOW"; if (struggleScore >= 7) ...; else if (struggleScore >= 4) ...
SupportLevelOf(score) ==
    IF score >= 70 THEN "HIGH" ELSE IF score >= 40 THEN "MEDIUM" ELSE "LOW"

\* contributingSignals.slice(0, 2).map(label).join(" & "): the labels joined
ReasonSummary(cs) == [i \in 1..MinNat(2, Len(cs)) |-> Label[cs[i].signalType]]

\* variant: the baseline reset records the fall
BaselineData_Down ==
    [struggleScore |-> 10, trend |-> "DOWN", supportLevel |-> "LOW",
     contributingSignals |-> <<>>, lastReasonSummary |-> <<>>]

\* variant: a baseline of score 0
BaselineData_Zero ==
    [struggleScore |-> 0, trend |-> "STABLE", supportLevel |-> "LOW",
     contributingSignals |-> <<>>, lastReasonSummary |-> <<>>]

\* the baseline written when no signal is in the window
BaselineData ==
    [struggleScore |-> 10, trend |-> "STABLE", supportLevel |-> "LOW",
     contributingSignals |-> <<>>, lastReasonSummary |-> <<>>]

-----------------------------------------------------------------------------
(* Request handlers *)

Idle == [pc |-> "idle"]

\* the call of handler p returns value v to its awaiting caller
Returned(p, op, arg, v) ==
    proc' = [proc EXCEPT ![p] = [pc |-> "returned", op |-> op, arg |-> arg, value |-> v]]

\* the call of handler p rejects with error err
Thrown(p, op, arg, err) ==
    proc' = [proc EXCEPT ![p] = [pc |-> "threw", op |-> op, arg |-> arg, value |-> err]]

\* the caller resumes with the returned value, or catches the error, and the
\* handler ends
Resume(p) ==
    /\ proc[p].pc \in {"returned", "threw"}
    /\ proc' = [proc EXCEPT ![p] = Idle]
    /\ UNCHANGED <<now, interactions, signals, profileDocs, network, alerts>>

-----------------------------------------------------------------------------
(* StruggleScoringService.recomputeForUser(userId) *)

\* variant: a call of recomputeForUser consumes the signals
RecomputeFrame_DropsSignals ==
    /\ signals' = EmptyBag
    /\ UNCHANGED <<now, interactions, network, alerts>>

\* recomputeForUser reads StruggleSignal and StruggleProfile and writes through
\* _upsertProfile only: every other collection is as it was
RecomputeFrame == UNCHANGED <<now, interactions, signals, network, alerts>>

\* const signals = await StruggleSignal.find(...); the empty case goes to the
\* baseline upsert, otherwise the score is computed and the previous profile read
RecomputeFindSignals(p, u) ==
    /\ proc[p].pc = "idle"
    /\ LET sigs == SignalsInWindow(u, now)
           agg == Aggregate(sigs)
       IN  proc' = [proc EXCEPT ![p] =
              IF sigs = {}
              THEN [pc |-> "rc_upsert", userId |-> u, signals |-> sigs,
                    data |-> BaselineData]
              ELSE [pc |-> "rc_prev", userId |-> u, signals |-> sigs,
                    rawScore |-> RawScore(agg),
                    struggleScore |-> ScoreOf(agg),
                    contributingSignals |-> Contributing(agg)]]
    /\ UNCHANGED profileDocs
    /\ RecomputeFrame

\* const prevProfile = await StruggleProfile.findOne({userId}).lean(); then trend,
\* support level and reason summary, and the call of _upsertProfile (new Date())
RecomputeFindPrev(p) ==
    /\ proc[p].pc = "rc_prev"
    /\ LET l == proc[p]
       IN  proc' = [proc EXCEPT ![p] =
              [pc |-> "rc_upsert", userId |-> l.userId, signals |-> l.signals,
               data |-> [struggleScore |-> l.struggleScore,
                         trend |-> TrendOf(l.userId, l.struggleScore),
                         supportLevel |-> SupportLevelOf(l.struggleScore),
                         contributingSignals |-> l.contributingSignals,
                         lastReasonSummary |-> ReasonSummary(l.contributingSignals)]]]
    /\ UNCHANGED profileDocs
    /\ RecomputeFrame

\* the document of user u with the fields of data
ProfileDoc(u, data) ==
    [userId |-> u, struggleScore |-> data.struggleScore, trend |-> data.trend,
     supportLevel |-> data.supportLevel, contributingSignals |-> data.contributingSignals,
     lastReasonSummary |-> data.lastReasonSummary]

\* the update half of findOneAndUpdate: the matching document is rewritten
UpdateProfile(u, data) ==
    LET d == CHOOSE x \in BagToSet(profileDocs) : x.userId = u
    IN  profileDocs' = (profileDocs (-) SetToBag({d})) (+) SetToBag({ProfileDoc(u, data)})

\* variant: userId is not unique
DuplicateUser_NoIndex(u) == FALSE

\* the unique index on userId rejects the insert (E11000)
DuplicateUser(u) == \E d \in BagToSet(profileDocs) : d.userId = u

\* StruggleProfile.findOneAndUpdate({userId}, {...data}, {upsert: true, new: true}):
\* a matching document is updated in place and the call returns it; without a
\* match the server goes on to insert one
RecomputeUpsert(p) ==
    /\ proc[p].pc = "rc_upsert"
    /\ IF proc[p].userId \in DOMAIN profiles
       THEN /\ UpdateProfile(proc[p].userId, proc[p].data)
            /\ Returned(p, "recomputeForUser", proc[p].userId, proc[p].data)
       ELSE /\ proc' = [proc EXCEPT ![p] = [proc[p] EXCEPT !.pc = "rc_insert"]]
            /\ UNCHANGED profileDocs
    /\ RecomputeFrame

\* the insert half of the upsert.  Another upsert may have inserted the user's
\* document since the match failed: the unique index then rejects the insert,
\* and the server either runs the upsert again as an update or the driver
\* rejects the call with E11000, depending on the server version
RecomputeInsert(p) ==
    /\ proc[p].pc = "rc_insert"
    /\ IF DuplicateUser(proc[p].userId)
       THEN \/ /\ UpdateProfile(proc[p].userId, proc[p].data)
               /\ Returned(p, "recomputeForUser", proc[p].userId, proc[p].data)
            \/ /\ Thrown(p, "recomputeForUser", proc[p].userId, 11000)
               /\ UNCHANGED profileDocs
       ELSE /\ profileDocs' = profileDocs (+) SetToBag({ProfileDoc(proc[p].userId, proc[p].data)})
            /\ Returned(p, "recomputeForUser", proc[p].userId, proc[p].data)
    /\ RecomputeFrame

\* StruggleProfile.findOneAndUpdate rejects with err and nothing is stored:
\* _upsertProfile and recomputeForUser have no catch clause
RecomputeUpsertFails(p, err) ==
    /\ proc[p].pc \in {"rc_upsert", "rc_insert"}
    /\ Thrown(p, "recomputeForUser", proc[p].userId, err)
    /\ UNCHANGED profileDocs
    /\ RecomputeFrame

-----------------------------------------------------------------------------
(* StruggleScoringService.checkBreakthrough(userId) *)

\* the JavaScript null a call resolves to
NullValue == [null |-> TRUE]

\* variant: no test for a missing profile
BreakthroughOf_NoNullTest(u) ==
    IF u \in DOMAIN profiles /\ profiles[u].trend = "DOWN" /\ profiles[u].struggleScore <= 40
    THEN [isBreakthrough |-> TRUE, currentScore |-> profiles[u].struggleScore,
          topic |-> profiles[u].lastReasonSummary]
    ELSE [isBreakthrough |-> FALSE]

\* if (!profile) return null; then the test on trend and score
BreakthroughOf(u) ==
    IF u \notin DOMAIN profiles THEN NullValue
    ELSE IF profiles[u].trend = "DOWN" /\ profiles[u].struggleScore <= 40
    THEN [isBreakthrough |-> TRUE, currentScore |-> profiles[u].struggleScore,
          topic |-> profiles[u].lastReasonSummary]
    ELSE [isBreakthrough |-> FALSE]

\* const profile = await StruggleProfile.findOne({userId}).lean(); and the return
CheckBreakthrough(p, u) ==
    /\ proc[p].pc = "idle"
    /\ Returned(p, "checkBreakthrough", u, BreakthroughOf(u))
    /\ UNCHANGED <<now, interactions, signals, profileDocs, network, alerts>>

-----------------------------------------------------------------------------
(* TutorAlertService.createAlertsIfNeeded(studentId) *)

\* variant: the support level is not looked at
GateOpen_TrendOnly(profile) ==
    profile.trend = "UP" \/ profile.struggleScore >= 90

\* variant: the trend is not looked at
GateOpen_HighOnly(profile) ==
    profile.supportLevel = "HIGH" \/ profile.struggleScore >= 90

\* not (supportLevel !== "HIGH" || trend !== "UP") or not (struggleScore < 9)
GateOpen(profile) ==
    ~ (profile.supportLevel # "HIGH" \/ profile.trend # "UP")
    \/ ~ (profile.struggleScore < 90)

AlertsReturn(p, s, created) == Returned(p, "createAlertsIfNeeded", s, created)

\* const profile = await StruggleProfile.findOne({userId: studentId}).lean();
\* no profile or a closed gate returns []
AlertsFindProfile(p, s) ==
    /\ proc[p].pc = "idle"
    /\ IF s \notin DOMAIN profiles
       THEN AlertsReturn(p, s, <<>>)
       ELSE IF ~ GateOpen(profiles[s])
       THEN AlertsReturn(p, s, <<>>)
       ELSE proc' = [proc EXCEPT ![p] =
                  [pc |-> "al_network", studentId |-> s, profile |-> profiles[s]]]
    /\ UNCHANGED <<now, interactions, signals, profileDocs, network, alerts>>

\* const network = await TutorCareNetwork.findOne({studentId}).lean();
AlertsFindNetwork(p) ==
    /\ proc[p].pc = "al_network"
    /\ LET s == proc[p].studentId
       IN  IF s \notin DOMAIN network
           THEN AlertsReturn(p, s, <<>>)
           ELSE IF Len(network[s]) = 0
           THEN AlertsReturn(p, s, <<>>)
           ELSE proc' = [proc EXCEPT ![p] =
                      [pc |-> "al_cooldown", studentId |-> s,
                       profile |-> proc[p].profile,
                       todo |-> network[s], created |-> <<>>]]
    /\ UNCHANGED <<now, interactions, signals, profileDocs, network, alerts>>

\* variant: only unread alerts are looked up
CooldownActive_UnreadOnly(t, s, at) ==
    \E i \in DOMAIN alerts :
        /\ alerts[i].tutorId = t
        /\ alerts[i].studentId = s
        /\ ~alerts[i].isRead
        /\ alerts[i].createdAt >= at - COOLDOWN_HOURS

\* variant: a lookup over half the cooldown, exclusive
CooldownActive_HalfWindow(t, s, at) ==
    \E i \in DOMAIN alerts :
        /\ alerts[i].tutorId = t
        /\ alerts[i].studentId = s
        /\ alerts[i].createdAt > at - COOLDOWN_HOURS \div 2

\* TutorAlert.findOne({tutorId, studentId, createdAt: {$gte: since}}) finds one
CooldownActive(t, s, at) ==
    \E i \in DOMAIN alerts :
        /\ alerts[i].tutorId = t
        /\ alerts[i].studentId = s
        /\ alerts[i].createdAt >= at - COOLDOWN_HOURS

\* the loop moves to the next tutor, or returns the alerts created
AlertsNext(p, created) ==
    LET l == proc[p]
    IN  IF Len(l.todo) = 1
        THEN AlertsReturn(p, l.studentId, created)
        ELSE proc' = [proc EXCEPT ![p] =
                   [pc |-> "al_cooldown", studentId |-> l.studentId,
                    profile |-> l.profile, todo |-> Tail(l.todo),
                    created |-> created]]
 
\* const recent = await TutorAlert.findOne(...); if (recent) continue;
AlertsFindRecent(p) ==
    /\ proc[p].pc = "al_cooldown"
    /\ LET l == proc[p]
       IN  IF CooldownActive(Head(l.todo), l.studentId, now)
           THEN AlertsNext(p, l.created)
           ELSE proc' = [proc EXCEPT ![p] = [l EXCEPT !.pc = "al_create"]]
    /\ UNCHANGED <<now, interactions, signals, profileDocs, network, alerts>>

\* variant: the alert names the topic of a stored signal of the student
NewAlert_RawTopic(t, s, profile, at) ==
    [tutorId |-> t, studentId |-> s,
     urgency |-> IF profile.struggleScore >= 90 THEN "URGENT" ELSE "SOFT",
     topic |-> <<(CHOOSE d \in BagToSet(signals) : d.userId = s).topic>>,
     struggleScore |-> profile.struggleScore,
     reasonSummary |-> ALERT_TEMPLATE,
     isRead |-> FALSE,
     createdAt |-> at]

\* variant: urgent from the HIGH threshold on
NewAlert_UrgentWhenHigh(t, s, profile, at) ==
    [tutorId |-> t, studentId |-> s,
     urgency |-> IF profile.struggleScore >= 70 THEN "URGENT" ELSE "SOFT",
     topic |-> IF profile.lastReasonSummary # <<>>
               THEN profile.lastReasonSummary ELSE <<"current topic">>,
     struggleScore |-> profile.struggleScore,
     reasonSummary |-> ALERT_TEMPLATE,
     isRead |-> FALSE,
     createdAt |-> at]

\* the document TutorAlert.create is given, with the schema's isRead default and
\* the createdAt timestamp
NewAlert(t, s, profile, at) ==
    [tutorId |-> t, studentId |-> s,
     urgency |-> IF profile.struggleScore >= 90 THEN "URGENT" ELSE "SOFT",
     topic |-> IF profile.lastReasonSummary # <<>>
               THEN profile.lastReasonSummary ELSE <<"current topic">>,
     struggleScore |-> profile.struggleScore,
     reasonSummary |-> ALERT_TEMPLATE,
     isRead |-> FALSE,
     createdAt |-> at]

\* const alert = await TutorAlert.create({...}); alerts.push(alert);
AlertsCreate(p) ==
    /\ proc[p].pc = "al_create"
    /\ Len(alerts) < MaxAlerts
    /\ LET l == proc[p]
       IN  /\ alerts' = Append(alerts, NewAlert(Head(l.todo), l.studentId, l.profile, now))
           /\ AlertsNext(p, Append(l.created, Len(alerts) + 1))
    /\ UNCHANGED <<now, interactions, signals, profileDocs, network>>

\* TutorAlert.create rejects with err and nothing is stored:
\* createAlertsIfNeeded has no catch clause
AlertsCreateFails(p, err) ==
    /\ proc[p].pc = "al_create"
    /\ Thrown(p, "createAlertsIfNeeded", proc[p].studentId, err)
    /\ UNCHANGED <<now, interactions, signals, profileDocs, network, alerts>>

\* variant: the filter is the alert id alone
AlertMatches_AnyTutor(alertId, tutorId) == alertId \in DOMAIN alerts

\* the filter {_id: alertId, tutorId}
AlertMatches(alertId, tutorId) ==
    /\ alertId \in DOMAIN alerts
    /\ alerts[alertId].tutorId = tutorId

\* PATCH /alerts/:id/read: TutorAlert.findOneAndUpdate({_id: alertId, tutorId},
\* {isRead: true}, {new: true}) resolves to the updated document or to null,
\* and the route answers 404 on null and 200 otherwise
MarkAsRead(p, alertId, tutorId) ==
    /\ proc[p].pc = "idle"
    /\ IF AlertMatches(alertId, tutorId)
       THEN /\ alerts' = [alerts EXCEPT ![alertId].isRead = TRUE]
            /\ Returned(p, "markAsRead", <<alertId, tutorId>>,
                        [alert |-> alerts'[alertId], statusCode |-> 200])
       ELSE /\ UNCHANGED alerts
            /\ Returned(p, "markAsRead", <<alertId, tutorId>>,
                        [alert |-> NullValue, statusCode |-> 404])
    /\ UNCHANGED <<now, interactions, signals, profileDocs, network>>

-----------------------------------------------------------------------------
(* Environment *)

\* time passes, between calls (a call is short against an hour)
Tick ==
    /\ \A p \in Procs : proc[p].pc = "idle"
    /\ now + TickHours <= MaxTime
    /\ now' = now + TickHours
    /\ UNCHANGED <<interactions, signals, profileDocs, network, alerts, proc>>

\* TutorCareNetwork.linkTutorToStudent: upsert with $addToSet
LinkTutor(s, t) ==
    /\ network' = [x \in DOMAIN network \cup {s} |->
                     IF x # s THEN network[x]
                     ELSE IF s \notin DOMAIN network THEN <<t>>
                     ELSE IF \E i \in DOMAIN network[s] : network[s][i] = t
                     THEN network[s] ELSE Append(network[s], t)]
    /\ network' # network
    /\ UNCHANGED <<now, interactions, signals, profileDocs, alerts, proc>>

-----------------------------------------------------------------------------
(* StruggleSignalService.extractSignalsFromInteraction(interaction) *)

\* An input text is kept as the set of lexicon phrases and hint markers it
\* contains: all the code reads of it is t.includes(w) for those.
NegativeLexicon ==
    {"stuck", "confused", "frustrated", "annoying", "hate", "cant", "can't",
     "won't", "doesnt make sense", "doesn't make sense", "im lost", "i'm lost",
     "give up", "hard", "im done", "i'm done", "this sucks"}

PositiveLexicon ==
    {"got it", "thanks", "thank you", "understand", "makes sense", "nice",
     "awesome", "great", "cool", "worked", "solved", "lets go", "let's go"}

HintMarkers ==
    {"hint", "clue", "nudge", "dont give answer", "no answer", "just help", "guide me"}

NoLatency == 0 - 1

\* _sentimentLexiconScore(text), times 3
SentimentLexiconScore(text) ==
    LET score == Cardinality(text \cap PositiveLexicon)
                 - Cardinality(text \cap NegativeLexicon)
    IN  IF score <= 0 - 3 THEN 0 - 3 ELSE IF score >= 3 THEN 3 ELSE score

\* _clamp01(n), on magnitudes times Scale
Clamp01(n) == MaxNat(0, MinNat(Scale, n))

\* _normalizeLinear(x, min, max), times Scale; x, min and max are given as
\* numerators xn, mn, mx over one positive denominator, which cancels
NormalizeLinear(xn, mn, mx) ==
    IF mx <= mn THEN 0
    ELSE IF xn <= mn THEN 0
    ELSE IF xn >= mx THEN Scale
    ELSE (Scale * (xn - mn)) \div (mx - mn)

\* the user's interactions created in the lookback window
InWindow(u, t) ==
    {i \in DOMAIN interactions :
        interactions[i].userId = u /\ interactions[i].createdAt >= t - WINDOW_HOURS}

\* AIInteraction.find({userId, createdAt: {$gte: since}}).sort({createdAt: -1})
\* .limit(100): the ids found.  interactions is in creation order, so the
\* newest are the highest indexes
Recent(u, t) ==
    {i \in InWindow(u, t) :
        Cardinality({j \in InWindow(u, t) : j > i}) < FIND_LIMIT}

\* the sorted latencies' middle element, latencies[Math.floor(length / 2)]
Median(ids) ==
    LET timed == {i \in ids : interactions[i].processingTime # NoLatency}
        \* .slice(0, 30) of the latencies, newest first
        ls == {i \in timed : Cardinality({j \in timed : j > i}) < BASELINE_SAMPLE}
        below(i) == Cardinality({j \in ls :
                        \/ interactions[j].processingTime < interactions[i].processingTime
                        \/ /\ interactions[j].processingTime = interactions[i].processingTime
                           /\ j < i})
    IN  IF ls = {} THEN 4000
        ELSE interactions[CHOOSE i \in ls : below(i) = Cardinality(ls) \div 2].processingTime

\* _computeEngagementDrop(recent): -1 for null, else the magnitude times Scale
ComputeEngagementDrop(ids, t) ==
    IF Cardinality(ids) < 10 THEN 0 - 1
    ELSE LET last6h == Cardinality({i \in ids : t - interactions[i].createdAt <= 6})
             prev6h == Cardinality({i \in ids : /\ t - interactions[i].createdAt > 6
                                                /\ t - interactions[i].createdAt <= 12})
         IN  IF prev6h < 3 THEN 0 - 1
             \* 1 - last6h / prev6h over [0.1, 0.8], all times 10 * prev6h
             ELSE NormalizeLinear(10 * (prev6h - last6h), prev6h, 8 * prev6h)

\* _signal(interaction, {...}): the payload of one fired rule
Payload(i, kind, value) ==
    [userId |-> interactions[i].userId, interactionId |-> i,
     topic |-> interactions[i].topic,
     signalType |-> kind, value |-> Clamp01(value)]

\* variant: the rule fires whatever the status
FailedAttemptFires_Always(x) == TRUE

\* interaction.status === "FAILED"
FailedAttemptFires(x) == x.status = "FAILED"

\* the rules, in the order the code pushes their payloads
SignalPayloads(i, t) ==
    LET x == interactions[i]
        recent == Recent(x.userId, t)
        sameTopicCount == Cardinality({j \in recent : interactions[j].topic = x.topic})
        baseline == Median(recent)
        \* ratio = latencyMs / baseline, as ratioN / ratioD
        ratioN == IF baseline > 0 THEN x.processingTime ELSE 1
        ratioD == IF baseline > 0 THEN baseline ELSE 1
        sentiment == SentimentLexiconScore(x.inputText)
        \* (-sentimentScore + 0.1) / 1.1 = (3 - 10 * sentiment) / 33
        negative == Clamp01((Scale * (3 - 10 * sentiment)) \div 33)
        hintCount == Cardinality({j \in recent :
                        interactions[j].inputText \cap HintMarkers # {}})
        drop == ComputeEngagementDrop(recent, t)
        failed == IF FailedAttemptFires(x)
                  THEN <<Payload(i, "FAILED_ATTEMPT", Scale)>> ELSE <<>>
        repeated == IF sameTopicCount >= 3
                    THEN <<Payload(i, "REPEATED_TOPIC",
                                   NormalizeLinear(sameTopicCount, 1, 5))>>
                    ELSE <<>>
        long == IF x.processingTime # NoLatency /\ 2 * ratioN >= 3 * ratioD
                THEN <<Payload(i, "LONG_RESPONSE_TIME",
                               NormalizeLinear(10 * ratioN, 11 * ratioD, 25 * ratioD))>>
                ELSE <<>>
        neg == IF 100 * negative >= 45 * Scale
               THEN <<Payload(i, "NEGATIVE_SENTIMENT", negative)>> ELSE <<>>
        hint == IF x.inputText \cap HintMarkers # {}
                THEN <<Payload(i, "HINT_DEPENDENCY", NormalizeLinear(hintCount, 1, 8))>>
                ELSE <<>>
        eng == IF drop # 0 - 1 /\ 10 * drop >= 6 * Scale
               THEN <<Payload(i, "ENGAGEMENT_DROP", drop)>> ELSE <<>>
    IN  failed \o repeated \o long \o neg \o hint \o eng

\* the value extractSignalsFromInteraction resolves to
ExtractResult(created, skipped, results) ==
    [created |-> created, skipped |-> skipped, signals |-> results]

\* variant: no unique index on the collection
DuplicateKey_NoIndex(payload) == FALSE

\* the unique index {interactionId: 1, signalType: 1} rejects the insert (E11000)
DuplicateKey(payload) ==
    \E s \in BagToSet(signals) : /\ s.interactionId = payload.interactionId
                                 /\ s.signalType = payload.signalType

\* variant: no role gate
RoleGate_Open(i) == FALSE

\* interaction.role && interaction.role !== "STUDENT"
RoleGate(i) == interactions[i].role # "STUDENT"

\* the role gate, then const recent = await AIInteraction.find(...) and the rules;
\* with no payload the loop is skipped and the call returns.
\* storedAtCall is history, read by no action: how many of the payloads had
\* their (interactionId, signalType) stored when the call began
ExtractFindRecent(p, i) ==
    /\ proc[p].pc = "idle"
    /\ IF RoleGate(i)
       THEN Returned(p, "extractSignalsFromInteraction", i, ExtractResult(0, 0, <<>>))
       ELSE LET pls == SignalPayloads(i, now)
            IN  IF pls = <<>>
                THEN Returned(p, "extractSignalsFromInteraction", i,
                              ExtractResult(0, 0, <<>>))
                ELSE proc' = [proc EXCEPT ![p] =
                        [pc |-> "ex_create", interactionId |-> i,
                         signalPayloads |-> pls, next |-> 1,
                         created |-> 0, skipped |-> 0, results |-> <<>>,
                         storedAtCall |->
                            Cardinality({k \in DOMAIN pls : DuplicateKey(pls[k])})]]
    /\ UNCHANGED <<now, interactions, signals, profileDocs, network, alerts>>

\* the document StruggleSignal.create stores, with its createdAt timestamp
SignalDoc(payload, at) ==
    [userId |-> payload.userId, interactionId |-> payload.interactionId,
     topic |-> payload.topic,
     signalType |-> payload.signalType, value |-> payload.value, createdAt |-> at]

\* variant: every error counted as skipped
Swallowed_Any(err) == TRUE

\* variant: every error rethrown
Swallowed_None(err) == FALSE

\* catch (err): err && err.code === 11000 is counted as skipped, anything else rethrown
Swallowed(err) == err = 11000

\* one turn of the write loop: await StruggleSignal.create(payload), created++ and
\* results.push(doc), or the catch clause on the duplicate key error; after the
\* last payload the call returns
ExtractCreate(p) ==
    /\ proc[p].pc = "ex_create"
    /\ LET l == proc[p]
           payload == l.signalPayloads[l.next]
           dup == DuplicateKey(payload)
           doc == SignalDoc(payload, now)
           created == IF dup THEN l.created ELSE l.created + 1
           skipped == IF dup THEN l.skipped + 1 ELSE l.skipped
           results == IF dup THEN l.results ELSE Append(l.results, doc)
       IN  /\ signals' = IF dup THEN signals ELSE signals (+) SetToBag({doc})
           /\ IF dup /\ ~Swallowed(11000)
              THEN Thrown(p, "extractSignalsFromInteraction", l.interactionId, 11000)
              ELSE IF l.next = Len(l.signalPayloads)
              THEN Returned(p, "extractSignalsFromInteraction", l.interactionId,
                            ExtractResult(created, skipped, results))
              ELSE proc' = [proc EXCEPT ![p] =
                      [l EXCEPT !.next = l.next + 1, !.created = created,
                                !.skipped = skipped, !.results = results]]
    /\ UNCHANGED <<now, interactions, profileDocs, network, alerts>>

\* error codes of a store that rejects a write: NetworkTimeout
FaultCodes == {89}

\* await StruggleSignal.create(payload) rejects with err and nothing is stored:
\* the catch clause counts it as skipped or rethrows it
ExtractCreateFails(p, err) ==
    /\ proc[p].pc = "ex_create"
    /\ LET l == proc[p]
       IN  IF ~Swallowed(err)
           THEN Thrown(p, "extractSignalsFromInteraction", l.interactionId, err)
           ELSE IF l.next = Len(l.signalPayloads)
           THEN Returned(p, "extractSignalsFromInteraction", l.interactionId,
                         ExtractResult(l.created, l.skipped + 1, l.results))
           ELSE proc' = [proc EXCEPT ![p] =
                   [l EXCEPT !.next = l.next + 1, !.skipped = l.skipped + 1]]
    /\ UNCHANGED <<now, interactions, signals, profileDocs, network, alerts>>

\* the interactions the tutoring subsystem saves
PlainInput ==
    [userId |-> "s1", role |-> "STUDENT", status |-> "SUCCESS", topic |-> "recursion",
     inputText |-> {}, processingTime |-> 4000]

InteractionInputs ==
    { [PlainInput EXCEPT !.status = "FAILED",
                         !.inputText = {"stuck", "confused", "frustrated"}],
      [PlainInput EXCEPT !.processingTime = 9200, !.inputText = {"hint", "thanks"}],
      [PlainInput EXCEPT !.userId = "a1", !.role = "ALUMNI", !.status = "FAILED",
                         !.inputText = {"stuck", "confused", "frustrated", "hint"}] }

\* the AIInteraction document saved for input x at time at
InteractionDoc(x, at) ==
    [userId |-> x.userId, role |-> x.role, status |-> x.status,
     topic |-> x.topic, inputText |-> x.inputText,
     processingTime |-> x.processingTime, createdAt |-> at]

\* AIInteraction.create by the tutoring subsystem
NewInteraction(x) ==
    /\ Len(interactions) < MaxInteractions
    /\ interactions' = Append(interactions, InteractionDoc(x, now))
    /\ UNCHANGED <<now, signals, profileDocs, network, alerts, proc>>

-----------------------------------------------------------------------------
(* POST /student-mamba-help: the request handler around the three stages *)

\* the requests in flight: one handler frame each, calling the services on its
\* own service frame
Routes == {"r1", "r2"}

Callee(r) == IF r = "r1" THEN "p1" ELSE "p2"

\* authorize('STUDENT'): the questions students send, with the status the
\* service saves them under
RouteInputs ==
    { [PlainInput EXCEPT !.inputText = {"stuck", "confused", "frustrated"}],
      [PlainInput EXCEPT !.processingTime = 9200, !.inputText = {"hint", "thanks"}],
      [PlainInput EXCEPT !.status = "FAILED"] }

\* sendSuccess(res, {..., requestId: result.requestId}, message)
SuccessResponse(requestId) ==
    [statusCode |-> 200, success |-> TRUE, requestId |-> requestId]

\* sendError(res, ..., 502, 'AI_SERVICE_ERROR', {requestId, ...})
ErrorResponse(requestId) ==
    [statusCode |-> 502, success |-> FALSE, requestId |-> requestId]

\* what the handler has written to res when it enters the try block
SentBeforePipeline(requestId) == <<>>

\* variant: the failure path reports success too
ReportsSuccess_Always(x) == TRUE

\* studentMambaHelper returns success: true after saving the interaction in
\* its try block, success: false from its catch block, which saves it FAILED
ReportsSuccess(x) == x.status # "FAILED"

\* const result = await openaiService.studentMambaHelper(req.userId, req.body):
\* the service saves the interaction and resolves; on success: false the
\* handler sends the 502 and ends, otherwise it enters the try block
StudentMambaHelper(r, x) ==
    /\ proc[r].pc = "idle"
    /\ Len(interactions) < MaxInteractions
    /\ interactions' = Append(interactions, InteractionDoc(x, now))
    /\ LET requestId == Len(interactions) + 1
       IN  proc' = [proc EXCEPT ![r] =
              IF ReportsSuccess(x)
              THEN [pc |-> "rt_find", userId |-> x.userId, requestId |-> requestId,
                    success |-> TRUE, caught |-> <<>>,
                    sent |-> SentBeforePipeline(requestId)]
              ELSE [pc |-> "rt_done", userId |-> x.userId, requestId |-> requestId,
                    success |-> FALSE, caught |-> <<>>,
                    sent |-> <<ErrorResponse(requestId)>>]]
    /\ UNCHANGED <<now, signals, profileDocs, network, alerts>>

\* variant: the catch clause runs the failed stage again
AfterCatch_Retries(l, err) == [l EXCEPT !.caught = <<err>>]

\* variant: an error of a stage goes to the error middleware
AfterCatch_Propagates(l, err) ==
    [l EXCEPT !.pc = "rt_done", !.caught = <<err>>,
              !.sent = Append(l.sent, [statusCode |-> 500, success |-> FALSE,
                                       requestId |-> l.requestId])]

\* catch (struggleErr) { console.error(...) } and then the sendSuccess after
\* the try block
AfterCatch(l, err) ==
    [l EXCEPT !.pc = "rt_done", !.caught = <<err>>,
              !.sent = Append(l.sent, SuccessResponse(l.requestId))]

\* the sendSuccess after the try block, no error caught
AfterPipeline(l) ==
    [l EXCEPT !.pc = "rt_done", !.sent = Append(l.sent, SuccessResponse(l.requestId))]

\* const interaction = await AIInteraction.findOne({requestId}); if (interaction)
RouteFindInteraction(r) ==
    /\ proc[r].pc = "rt_find"
    /\ proc' = [proc EXCEPT ![r] =
          IF proc[r].requestId \in DOMAIN interactions
          THEN [proc[r] EXCEPT !.pc = "rt_extract"]
          ELSE AfterPipeline(proc[r])]
    /\ UNCHANGED <<now, interactions, signals, profileDocs, network, alerts>>

\* await StruggleSignalService.extractSignalsFromInteraction(interaction, ...)
RouteCallExtract(r) ==
    /\ proc[r].pc = "rt_extract"
    /\ ExtractFindRecent(Callee(r), proc[r].requestId)

\* await StruggleScoringService.recomputeForUser(req.userId)
RouteCallRecompute(r) ==
    /\ proc[r].pc = "rt_recompute"
    /\ RecomputeFindSignals(Callee(r), proc[r].userId)

\* await TutorAlertService.createAlertsIfNeeded(req.userId)
RouteCallAlerts(r) ==
    /\ proc[r].pc = "rt_alerts"
    /\ AlertsFindProfile(Callee(r), proc[r].userId)

\* the awaited stage resolves and the handler goes on to the next stage, or to
\* sendSuccess after the last; or the stage rejects and the catch clause runs
RouteResume(r) ==
    /\ proc[r].pc \in {"rt_extract", "rt_recompute", "rt_alerts"}
    /\ proc[Callee(r)].pc \in {"returned", "threw"}
    /\ LET l == proc[r]
           c == proc[Callee(r)]
       IN  proc' = [proc EXCEPT
              ![Callee(r)] = Idle,
              ![r] = IF c.pc = "threw" THEN AfterCatch(l, c.value)
                     ELSE IF l.pc = "rt_alerts" THEN AfterPipeline(l)
                     ELSE [l EXCEPT !.pc = IF l.pc = "rt_extract"
                                           THEN "rt_recompute" ELSE "rt_alerts"]]
    /\ UNCHANGED <<now, interactions, signals, profileDocs, network, alerts>>

\* the pcs of a handler inside the try block
InPipeline == {"rt_find", "rt_extract", "rt_recompute", "rt_alerts"}

\* the server process ends: every request in flight stops where it is, with
\* the calls it awaits; the collections stay as they are
Crash ==
    /\ \E r \in Routes : proc[r].pc \in InPipeline
    /\ proc' = [q \in DOMAIN proc |->
                  IF q \in Routes /\ proc[q].pc \in InPipeline
                  THEN [pc |-> "rt_stopped", stage |-> proc[q].pc,
                        called |-> proc[Callee(q)].pc # "idle",
                        userId |-> proc[q].userId, requestId |-> proc[q].requestId,
                        success |-> proc[q].success, sent |-> proc[q].sent]
                  ELSE IF q \in Routes THEN proc[q]
                  ELSE Idle]
    /\ UNCHANGED <<now, interactions, signals, profileDocs, network, alerts>>

\* time passes between requests (a request is short against an hour)
TickBetweenRequests ==
    /\ \A q \in Routes : proc[q].pc \notin InPipeline
    /\ Tick

\* a request that arrives when no other is being handled
StudentMambaHelperAlone(r, x) ==
    /\ \A q \in Routes : proc[q].pc \notin InPipeline
    /\ StudentMambaHelper(r, x)

-----------------------------------------------------------------------------
(* Signals arriving from extraction passes over interactions that are not kept
   in the interactions variable: the payload sets of whole passes *)

PassPayloads ==
    { [FAILED_ATTEMPT |-> Scale],
      [LONG_RESPONSE_TIME |-> Scale \div 2],
      [LONG_RESPONSE_TIME |-> (6 * Scale) \div 7],
      [HINT_DEPENDENCY |-> 0],
      [REPEATED_TOPIC |-> (3 * Scale) \div 4, FAILED_ATTEMPT |-> Scale,
       NEGATIVE_SENTIMENT |-> Scale, LONG_RESPONSE_TIME |-> Scale],
      [REPEATED_TOPIC |-> Scale, FAILED_ATTEMPT |-> Scale,
       NEGATIVE_SENTIMENT |-> Scale, ENGAGEMENT_DROP |-> Scale,
       LONG_RESPONSE_TIME |-> Scale] }

\* the documents of pass number n
PassDocs(u, pl, n, at) ==
    { [userId |-> u, interactionId |-> 0 - n, topic |-> "unknown",
       signalType |-> k, value |-> pl[k], createdAt |-> at] : k \in DOMAIN pl }

PassIds == {s.interactionId : s \in BagToSet(signals)}

\* the write loop of a pass for a new interaction of user u whose rules fired with
\* payloads pl: StruggleSignal.create(payload) for each, none a duplicate
ExtractionPass(u, pl, max) ==
    /\ Cardinality(PassIds) < max
    /\ signals' = signals (+) SetToBag(PassDocs(u, pl, Cardinality(PassIds) + 1, now))
    /\ UNCHANGED <<now, interactions, profileDocs, network, alerts, proc>>

\* The magnitudes a rule can store, per kind: topic counts 3, 4 and 5 or more;
\* the failed attempt's 1; lexicon scores -2/3 and -1; engagement ratios 1/3,
\* 1/4 and 0; latency ratios 1.5, 1.8, 2.3 and 2.5 or more; hint counts 1..8
MagnitudeDomain ==
    [REPEATED_TOPIC |-> {Scale \div 2, (3 * Scale) \div 4, Scale},
     FAILED_ATTEMPT |-> {Scale},
     NEGATIVE_SENTIMENT |-> {(23 * Scale) \div 33, Scale},
     ENGAGEMENT_DROP |-> {(17 * Scale) \div 21, (13 * Scale) \div 14, Scale},
     LONG_RESPONSE_TIME |-> {(2 * Scale) \div 7, Scale \div 2, (6 * Scale) \div 7, Scale},
     HINT_DEPENDENCY |-> {(n * Scale) \div 7 : n \in 0..7}]

Absent == 0 - 1

\* every non-empty set of kinds, each with every magnitude of its domain
GridPayloads ==
    { [k \in {x \in Kinds : f[x] # Absent} |-> f[k]] :
        f \in { [REPEATED_TOPIC |-> a, FAILED_ATTEMPT |-> b, NEGATIVE_SENTIMENT |-> c,
                 ENGAGEMENT_DROP |-> d, LONG_RESPONSE_TIME |-> e, HINT_DEPENDENCY |-> h] :
                  a \in MagnitudeDomain.REPEATED_TOPIC \cup {Absent},
                  b \in MagnitudeDomain.FAILED_ATTEMPT \cup {Absent},
                  c \in MagnitudeDomain.NEGATIVE_SENTIMENT \cup {Absent},
                  d \in MagnitudeDomain.ENGAGEMENT_DROP \cup {Absent},
                  e \in MagnitudeDomain.LONG_RESPONSE_TIME \cup {Absent},
                  h \in MagnitudeDomain.HINT_DEPENDENCY \cup {Absent} }
             \ { [k \in Kinds |-> Absent] } }

-----------------------------------------------------------------------------
(* Specifications *)

EmptyMap == [x \in {} |-> 0]

Init ==
    /\ now = 0
    /\ interactions = <<>>
    /\ signals = EmptyBag
    /\ profileDocs = EmptyBag
    /\ network = EmptyMap
    /\ alerts = <<>>
    /\ proc = [p \in Procs |-> Idle]

\* one pass over any combination of magnitudes has been stored
InitGrid ==
    /\ now = 0
    /\ interactions = <<>>
    /\ \E pl \in GridPayloads : signals = SetToBag(PassDocs("s1", pl, 1, 0))
    /\ profileDocs = EmptyBag
    /\ network = EmptyMap
    /\ alerts = <<>>
    /\ proc = [p \in Procs |-> Idle]

\* the few payload sets behind a low, a high and a critical score
AlertPayloads ==
    { pl \in PassPayloads :
        \/ DOMAIN pl = {"FAILED_ATTEMPT"}
        \/ Cardinality(DOMAIN pl) >= 4 }

\* aggregation of one pass over every combination of magnitudes
NextGrid ==
    \/ Tick
    \/ \E u \in Students : RecomputeFindSignals("p1", u)
    \/ RecomputeFindPrev("p1")
    \/ RecomputeUpsert("p1")
    \/ RecomputeInsert("p1")
    \/ Resume("p1")

SpecGrid == InitGrid /\ [][NextGrid]_vars

\* extraction from stored interactions by concurrent request handlers
NextExtract ==
    \/ \E x \in InteractionInputs : NewInteraction(x)
    \/ \E p \in Procs, i \in DOMAIN interactions : ExtractFindRecent(p, i)
    \/ \E p \in Procs : ExtractCreate(p)
    \/ \E p \in Procs : Resume(p)

SpecExtract == Init /\ [][NextExtract]_vars

\* extractions one after the other over a store that can reject a write
NextPartial ==
    \/ \E x \in InteractionInputs : NewInteraction(x)
    \/ \E i \in DOMAIN interactions : ExtractFindRecent("p1", i)
    \/ ExtractCreate("p1")
    \/ \E err \in FaultCodes : ExtractCreateFails("p1", err)
    \/ Resume("p1")

SpecPartial == Init /\ [][NextPartial]_vars

\* aggregation over any recorded signals, one call at a time
NextScore ==
    \/ Tick
    \/ \E u \in Students, pl \in PassPayloads : ExtractionPass(u, pl, MaxPasses)
    \/ \E u \in Students : RecomputeFindSignals("p1", u)
    \/ RecomputeFindPrev("p1")
    \/ RecomputeUpsert("p1")
    \/ RecomputeInsert("p1")
    \/ Resume("p1")

SpecScore == Init /\ [][NextScore]_vars

\* aggregation and alert dispatch, one call at a time
NextSeq ==
    \/ Tick
    \/ \E s \in Students, t \in Tutors : LinkTutor(s, t)
    \/ \E u \in Students, pl \in AlertPayloads : ExtractionPass(u, pl, MaxAlertPasses)
    \/ \E u \in Students : RecomputeFindSignals("p1", u)
    \/ RecomputeFindPrev("p1")
    \/ RecomputeUpsert("p1")
    \/ RecomputeInsert("p1")
    \/ \E s \in Students : AlertsFindProfile("p1", s)
    \/ AlertsFindNetwork("p1")
    \/ AlertsFindRecent("p1")
    \/ AlertsCreate("p1")
    \/ Resume("p1")

SpecSeq == Init /\ [][NextSeq]_vars

\* a care-network document may exist with the schema's empty tutorIds array
InitData ==
    /\ now = 0
    /\ interactions = <<>>
    /\ signals = EmptyBag
    /\ profileDocs = EmptyBag
    /\ network \in {EmptyMap} \cup {[x \in {s} |-> <<>>] : s \in Students}
    /\ alerts = <<>>
    /\ proc = [p \in Procs |-> Idle]

\* the calls of the pipeline and of the breakthrough check, one at a time, over
\* stores that may lack the profile, the care network or the tutors
NextData ==
    \/ NextSeq
    \/ \E u \in Students : CheckBreakthrough("p1", u)

SpecData == InitData /\ [][NextData]_vars

\* payload sets behind the scores 2.4, 7.2 and 8.9
TrendPayloads ==
    { [LONG_RESPONSE_TIME |-> Scale],
      [REPEATED_TOPIC |-> (3 * Scale) \div 4, FAILED_ATTEMPT |-> Scale,
       NEGATIVE_SENTIMENT |-> Scale, LONG_RESPONSE_TIME |-> Scale],
      [REPEATED_TOPIC |-> Scale, FAILED_ATTEMPT |-> Scale,
       NEGATIVE_SENTIMENT |-> Scale, ENGAGEMENT_DROP |-> Scale,
       LONG_RESPONSE_TIME |-> (6 * Scale) \div 7] }

\* re-evaluations, alert dispatch and breakthrough checks, one call at a time,
\* while signals arrive and leave the window
NextTrend ==
    \/ Tick
    \/ \E s \in Students : LinkTutor(s, "t1")
    \/ \E u \in Students, pl \in TrendPayloads : ExtractionPass(u, pl, MaxPasses)
    \/ \E u \in Students : RecomputeFindSignals("p1", u)
    \/ RecomputeFindPrev("p1")
    \/ RecomputeUpsert("p1")
    \/ RecomputeInsert("p1")
    \/ \E s \in Students : AlertsFindProfile("p1", s)
    \/ AlertsFindNetwork("p1")
    \/ AlertsFindRecent("p1")
    \/ AlertsCreate("p1")
    \/ \E u \in Students : CheckBreakthrough("p1", u)
    \/ Resume("p1")

SpecTrend == Init /\ [][NextTrend]_vars

\* alert dispatch by two handlers at the same time, while one of them
\* re-evaluates and tutors join the care network
NextPair ==
    \/ \E s \in Students, t \in Tutors : LinkTutor(s, t)
    \/ \E u \in Students, pl \in AlertPayloads : ExtractionPass(u, pl, MaxAlertPasses)
    \/ \E u \in Students : RecomputeFindSignals("p1", u)
    \/ RecomputeFindPrev("p1")
    \/ RecomputeUpsert("p1")
    \/ RecomputeInsert("p1")
    \/ \E p \in Procs, s \in Students : AlertsFindProfile(p, s)
    \/ \E p \in Procs : AlertsFindNetwork(p)
    \/ \E p \in Procs : AlertsFindRecent(p)
    \/ \E p \in Procs : AlertsCreate(p)
    \/ \E p \in Procs : Resume(p)

SpecPair == Init /\ [][NextPair]_vars

\* calls that do not overlap, and tutors marking alerts as read
NextRead ==
    \/ NextSeq
    \/ \E a \in 1..MaxAlerts, t \in Tutors : MarkAsRead("p1", a, t)

SpecRead == Init /\ [][NextRead]_vars

\* the store and the handler frames of a server that takes student requests
InitRoute ==
    /\ now = 0
    /\ interactions = <<>>
    /\ signals = EmptyBag
    /\ profileDocs = EmptyBag
    /\ network = EmptyMap
    /\ alerts = <<>>
    /\ proc = [p \in Procs \cup Routes |-> Idle]

\* the steps of the three stages, on the service frames
StageSteps ==
    \/ \E p \in Procs : ExtractCreate(p)
    \/ \E p \in Procs : RecomputeFindPrev(p)
    \/ \E p \in Procs : RecomputeUpsert(p)
    \/ \E p \in Procs : RecomputeInsert(p)
    \/ \E p \in Procs : AlertsFindNetwork(p)
    \/ \E p \in Procs : AlertsFindRecent(p)
    \/ \E p \in Procs : AlertsCreate(p)

\* the steps of a request handler
RouteSteps ==
    \/ \E r \in Routes : RouteFindInteraction(r)
    \/ \E r \in Routes : RouteCallExtract(r)
    \/ \E r \in Routes : RouteCallRecompute(r)
    \/ \E r \in Routes : RouteCallAlerts(r)
    \/ \E r \in Routes : RouteResume(r)

\* student requests handled at the same time
NextRoute ==
    \/ \E s \in Students, t \in Tutors : LinkTutor(s, t)
    \/ \E u \in Students, pl \in AlertPayloads : ExtractionPass(u, pl, MaxAlertPasses)
    \/ \E r \in Routes, x \in RouteInputs : StudentMambaHelper(r, x)
    \/ RouteSteps
    \/ StageSteps

SpecRoute == InitRoute /\ [][NextRoute]_vars

\* student requests handled one after the other by a server that can stop
NextStop ==
    \/ TickBetweenRequests
    \/ \E s \in Students : LinkTutor(s, "t1")
    \/ \E u \in Students, pl \in AlertPayloads : ExtractionPass(u, pl, MaxAlertPasses)
    \/ \E r \in Routes, x \in RouteInputs : StudentMambaHelperAlone(r, x)
    \/ RouteSteps
    \/ StageSteps
    \/ Crash

SpecStop == InitRoute /\ [][NextStop]_vars

\* a write of a stage is rejected by the store
WriteFaults ==
    \/ \E p \in Procs, err \in FaultCodes : ExtractCreateFails(p, err)
    \/ \E p \in Procs, err \in FaultCodes : RecomputeUpsertFails(p, err)
    \/ \E p \in Procs, err \in FaultCodes : AlertsCreateFails(p, err)

\* student requests handled one after the other over a store that can reject
\* writes
NextFault ==
    \/ \E s \in Students : LinkTutor(s, "t1")
    \/ \E u \in Students, pl \in AlertPayloads : ExtractionPass(u, pl, MaxAlertPasses)
    \/ \E r \in Routes, x \in RouteInputs : StudentMambaHelperAlone(r, x)
    \/ RouteSteps
    \/ StageSteps
    \/ WriteFaults

SpecFault == InitRoute /\ [][NextFault]_vars

\* two learners whose questions differ in wording and topic
Learners == {"s1", "s2"}

TextInputs ==
    { [PlainInput EXCEPT !.inputText = {"stuck", "confused", "frustrated"}],
      [PlainInput EXCEPT !.userId = "s2", !.topic = "pointers",
                         !.inputText = {"annoying", "hate", "this sucks"}] }

\* requests of the two learners handled one after the other
NextText ==
    \/ \E s \in Learners : LinkTutor(s, "t1")
    \/ \E u \in Learners, pl \in AlertPayloads : ExtractionPass(u, pl, MaxPasses)
    \/ \E r \in Routes, x \in TextInputs : StudentMambaHelperAlone(r, x)
    \/ RouteSteps
    \/ StageSteps

SpecText == InitRoute /\ [][NextText]_vars

\* aggregation and alert dispatch by concurrent request handlers
Next ==
    \/ Tick
    \/ \E s \in Students, t \in Tutors : LinkTutor(s, t)
    \/ \E u \in Students, pl \in AlertPayloads : ExtractionPass(u, pl, MaxAlertPasses)
    \/ \E p \in Procs, u \in Students : RecomputeFindSignals(p, u)
    \/ \E p \in Procs : RecomputeFindPrev(p)
    \/ \E p \in Procs : RecomputeUpsert(p)
    \/ \E p \in Procs : RecomputeInsert(p)
    \/ \E p \in Procs, s \in Students : AlertsFindProfile(p, s)
    \/ \E p \in Procs : AlertsFindNetwork(p)
    \/ \E p \in Procs : AlertsFindRecent(p)
    \/ \E p \in Procs : AlertsCreate(p)
    \/ \E p \in Procs : Resume(p)

Spec == Init /\ [][Next]_vars

-----------------------------------------------------------------------------
(* Alert cooldown *)

\* C1: when createAlertsIfNeeded calls do not overlap, any two alerts of one
\* (tutor, student) pair were created at least COOLDOWN_HOURS apart: a call
\* made within 24 hours of an alert of the pair adds none for it.
C1_CooldownSeparatesAlerts ==
    \A i, j \in DOMAIN alerts :
        /\ i < j
        /\ alerts[i].tutorId = alerts[j].tutorId
        /\ alerts[i].studentId = alerts[j].studentId
        => alerts[j].createdAt - alerts[i].createdAt >= COOLDOWN_HOURS

\* a call for a student whose profile passes the gate, made later than and
\* within 24 hours of the alerts of all linked tutors, has returned no alert
C1_CallInsideCooldownCreatedNone ==
    \E p \in Procs :
        /\ proc[p].pc = "returned"
        /\ proc[p].op = "createAlertsIfNeeded"
        /\ proc[p].value = <<>>
        /\ proc[p].arg \in DOMAIN profiles
        /\ GateOpen(profiles[proc[p].arg])
        /\ proc[p].arg \in DOMAIN network
        /\ \A k \in DOMAIN network[proc[p].arg] :
              \E i \in DOMAIN alerts :
                  /\ alerts[i].tutorId = network[proc[p].arg][k]
                  /\ alerts[i].studentId = proc[p].arg
                  /\ alerts[i].createdAt < now
                  /\ now - alerts[i].createdAt < COOLDOWN_HOURS

\* C2: with overlapping createAlertsIfNeeded calls, no window of COOLDOWN_HOURS
\* holds more than one alert of a (tutor, student) pair.
C2_OneAlertPerCooldownWindow ==
    \A t \in Tutors, s \in Students, w \in 0..MaxTime :
        Cardinality({i \in DOMAIN alerts :
                        /\ alerts[i].tutorId = t
                        /\ alerts[i].studentId = s
                        /\ alerts[i].createdAt \in w..(w + COOLDOWN_HOURS - 1)}) <= 1

-----------------------------------------------------------------------------
(* Signal extraction *)

\* C3: in every reachable state, whatever the interleaving of the extraction
\* calls, the store holds at most one StruggleSignal per (interactionId,
\* signalType).
C3_OneSignalPerInteractionAndKind ==
    \A s \in BagToSet(signals) :
        /\ CopiesIn(s, signals) = 1
        /\ \A t \in BagToSet(signals) :
              (t.interactionId = s.interactionId /\ t.signalType = s.signalType) => t = s

\* two calls on one interaction overlap in the write loop: one has stored a
\* signal, the other has had an insert rejected
C3_RacingExtractions ==
    \E p, q \in Procs :
        /\ p # q
        /\ proc[p].pc = "ex_create"
        /\ proc[q].pc = "ex_create"
        /\ proc[p].interactionId = proc[q].interactionId
        /\ proc[p].created > 0
        /\ proc[q].skipped > 0

\* C4: a duplicate (interactionId, signalType) is never thrown by
\* extractSignalsFromInteraction: the call returns, created + skipped is the
\* number of rules that fired, the returned signals are exactly the documents
\* the call created, and a call on an interaction whose fired rules were all
\* stored already returns created = 0.
C4_DuplicateCountedAsSkipped ==
    [][\A p \in Procs :
          /\ proc'[p].pc # "threw"
          /\ (proc[p].pc = "ex_create" /\ proc'[p].pc = "returned") =>
                LET l == proc[p]
                    v == proc'[p].value
                IN  /\ v.created + v.skipped = Len(l.signalPayloads)
                    /\ v.created = Len(v.signals)
                    /\ \A k \in DOMAIN v.signals :
                          /\ BagIn(v.signals[k], signals')
                          /\ v.signals[k].interactionId = l.interactionId
                          /\ \A m \in DOMAIN v.signals :
                                v.signals[m].signalType = v.signals[k].signalType => m = k
                    /\ l.storedAtCall = Len(l.signalPayloads) => v.created = 0
          /\ (proc[p].pc = "idle" /\ proc'[p].pc = "returned"
                /\ proc'[p].op = "extractSignalsFromInteraction") =>
                /\ proc'[p].value = [created |-> 0, skipped |-> 0, signals |-> <<>>]
                /\ \/ interactions[proc'[p].arg].role # "STUDENT"
                   \/ SignalPayloads(proc'[p].arg, now) = <<>>
      ]_vars

\* one call has returned with some signals created and some skipped, and a
\* repeat call on an extracted interaction has returned with all skipped
C4_PartialAndRepeatReturned ==
    \E p, q \in Procs :
        /\ proc[p].pc = "returned"
        /\ proc[p].op = "extractSignalsFromInteraction"
        /\ proc[p].value.created > 0
        /\ proc[p].value.skipped > 0
        /\ proc[q].pc = "returned"
        /\ proc[q].op = "extractSignalsFromInteraction"
        /\ proc[q].value.created = 0
        /\ proc[q].value.skipped > 1

\* C5: a learner's interaction with status FAILED has, once an extraction call
\* on it has returned, exactly one FAILED_ATTEMPT signal, of magnitude 1, and
\* keeps it; an interaction with another status never has one.
C5_FailedAttemptExactlyOnce ==
    /\ [](\A i \in DOMAIN interactions :
            LET fa == {s \in BagToSet(signals) :
                          s.interactionId = i /\ s.signalType = "FAILED_ATTEMPT"}
            IN  /\ interactions[i].status # "FAILED" => fa = {}
                /\ Cardinality(fa) <= 1
                /\ \A s \in fa : s.value = Scale /\ CopiesIn(s, signals) = 1
                /\ (/\ interactions[i].status = "FAILED"
                    /\ interactions[i].role = "STUDENT"
                    /\ \E p \in Procs : /\ proc[p].pc = "returned"
                                        /\ proc[p].op = "extractSignalsFromInteraction"
                                        /\ proc[p].arg = i)
                   => Cardinality(fa) = 1)
    /\ [][\A s \in BagToSet(signals) :
             s.signalType = "FAILED_ATTEMPT" => BagIn(s, signals')]_vars

\* a second call on a learner's FAILED interaction has returned, its
\* FAILED_ATTEMPT insert skipped, and an interaction with another status has
\* been extracted
C5_FailedExtractedTwice ==
    \E p, q \in Procs :
        /\ proc[p].pc = "returned"
        /\ proc[p].op = "extractSignalsFromInteraction"
        /\ interactions[proc[p].arg].status = "FAILED"
        /\ interactions[proc[p].arg].role = "STUDENT"
        /\ proc[p].value.created = 0
        /\ proc[p].value.skipped > 0
        /\ proc[q].pc = "returned"
        /\ proc[q].op = "extractSignalsFromInteraction"
        /\ interactions[proc[q].arg].status # "FAILED"
        /\ proc[q].value.created > 0

\* C6: a call on an interaction whose role is not STUDENT returns {created: 0,
\* skipped: 0, signals: []} at once, without error, and leaves the signal store
\* as it was; no stored signal belongs to such an interaction.
C6_OtherRolesLeaveNoSignal ==
    /\ [](/\ \A s \in BagToSet(signals) : interactions[s.interactionId].role = "STUDENT"
          /\ \A p \in Procs :
                /\ proc[p].pc = "ex_create" => interactions[proc[p].interactionId].role = "STUDENT"
                /\ proc[p].pc = "threw" => interactions[proc[p].arg].role = "STUDENT")
    /\ [][\A p \in Procs, i \in DOMAIN interactions :
             (/\ interactions[i].role # "STUDENT"
              /\ proc[p].pc = "idle"
              /\ proc'[p].pc # "idle"
              /\ IF proc'[p].pc = "ex_create" THEN proc'[p].interactionId = i
                 ELSE proc'[p].arg = i)
             => /\ proc'[p] = [pc |-> "returned", op |-> "extractSignalsFromInteraction",
                               arg |-> i,
                               value |-> [created |-> 0, skipped |-> 0, signals |-> <<>>]]
                /\ signals' = signals]_vars

\* a call on a FAILED interaction of an alumni user has returned while the
\* store holds signals of a learner's interaction
C6_AlumniFailedExtracted ==
    \E p \in Procs :
        /\ proc[p].pc = "returned"
        /\ proc[p].op = "extractSignalsFromInteraction"
        /\ interactions[proc[p].arg].role = "ALUMNI"
        /\ interactions[proc[p].arg].status = "FAILED"
        /\ signals # EmptyBag

-----------------------------------------------------------------------------
(* Scoring *)

\* C7: for every combination of per-kind maxima in [0, 1] the weighted sum
\* lies in [0, 1] and the score in [1, 10]: every score recomputeForUser
\* computes, hands to the upsert or has written is in [1, 10].
C7_RawAndScoreInRange ==
    /\ \A p \in Procs :
          /\ proc[p].pc = "rc_prev" =>
                /\ proc[p].rawScore >= 0
                /\ proc[p].rawScore <= 100 * Scale
                /\ proc[p].struggleScore >= 10
                /\ proc[p].struggleScore <= 100
          /\ proc[p].pc = "rc_upsert" =>
                /\ proc[p].data.struggleScore >= 10
                /\ proc[p].data.struggleScore <= 100
    /\ \A u \in DOMAIN profiles :
          /\ profiles[u].struggleScore >= 10
          /\ profiles[u].struggleScore <= 100

\* the upper end is computed and written: all six kinds at magnitude 1 give
\* raw 1 and score 10
C7_UpperEndWritten ==
    \E p \in Procs :
        /\ proc[p].pc = "returned"
        /\ proc[p].op = "recomputeForUser"
        /\ profiles[proc[p].arg] = proc[p].value
        /\ proc[p].value.struggleScore = 100
        /\ Len(proc[p].value.contributingSignals) = 6
        /\ \A i \in 1..6 : proc[p].value.contributingSignals[i].value = Scale

\* C8: with a signal in the window, raw is the sum over the six kinds of weight
\* times the largest in-window magnitude of the kind (0 when absent), the
\* stored score is 1 + 9 * raw rounded to one decimal, signals not above their
\* kind's maximum do not change the score, and a lone FAILED_ATTEMPT of
\* magnitude 1 gives score 2.8 and support level LOW.
C8_ScoreIsWeightedMaxima ==
    \A p \in Procs :
        /\ proc[p].pc = "rc_prev" =>
              LET S == proc[p].signals
                  top(k) == IF \E s \in S : s.signalType = k
                            THEN (CHOOSE s \in S :
                                     /\ s.signalType = k
                                     /\ \A t \in S : t.signalType = k => t.value <= s.value).value
                            ELSE 0
                  raw == 25 * top("REPEATED_TOPIC") + 20 * top("FAILED_ATTEMPT")
                         + 15 * top("NEGATIVE_SENTIMENT") + 15 * top("ENGAGEMENT_DROP")
                         + 15 * top("LONG_RESPONSE_TIME") + 10 * top("HINT_DEPENDENCY")
                  den == 100 * Scale
                  gap == 2 * proc[p].struggleScore * den - 2 * (10 * den + 90 * raw)
              IN  /\ S # {}
                  /\ proc[p].rawScore = raw
                  /\ gap <= den /\ 0 - gap <= den
                  /\ \A T \in SUBSET S :
                        (\A s \in S : \E t \in T :
                            t.signalType = s.signalType /\ t.value >= s.value)
                        => ScoreOf(Aggregate(T)) = proc[p].struggleScore
        /\ proc[p].pc = "rc_upsert" =>
              /\ (\E s \in proc[p].signals :
                     /\ proc[p].signals = {s}
                     /\ s.signalType = "FAILED_ATTEMPT"
                     /\ s.value = Scale)
                 => /\ proc[p].data.struggleScore = 28
                    /\ proc[p].data.supportLevel = "LOW"
        /\ (proc[p].pc = "returned" /\ proc[p].op = "recomputeForUser") =>
              profiles[proc[p].arg].struggleScore = proc[p].value.struggleScore

\* a score is about to be written over a window that holds two signals of one
\* kind with different magnitudes
C8_SignalBelowMaximumInWindow ==
    \E p \in Procs :
        /\ proc[p].pc = "rc_upsert"
        /\ \E s, t \in proc[p].signals :
              /\ s.signalType = t.signalType
              /\ s.value < t.value
        /\ proc[p].data.struggleScore > 10

\* C9: with no signal created inside the window, recomputeForUser overwrites
\* the profile, whatever it was, with score 1, STABLE, LOW, no contributing
\* signal and no reason; a createAlertsIfNeeded call on that profile returns
\* no alert and creates none.
C9_EmptyWindowResetsProfile ==
    [][\A p \in Procs :
          /\ (proc[p].pc = "idle" /\ proc'[p].pc = "rc_upsert") =>
                /\ SignalsInWindow(proc'[p].userId, now) = {}
                /\ proc'[p].signals = {}
          /\ (proc[p].pc = "idle" /\ proc'[p].pc = "rc_prev") =>
                SignalsInWindow(proc'[p].userId, now) # {}
          /\ (/\ proc[p].pc \in {"rc_upsert", "rc_insert"}
              /\ proc[p].signals = {}
              /\ proc'[p].pc = "returned") =>
                /\ proc[p].userId \in DOMAIN profiles'
                /\ profiles'[proc[p].userId] =
                      [struggleScore |-> 10, trend |-> "STABLE", supportLevel |-> "LOW",
                       contributingSignals |-> <<>>, lastReasonSummary |-> <<>>]
          /\ \A s \in DOMAIN profiles :
                (/\ profiles[s].struggleScore = 10
                 /\ profiles[s].trend = "STABLE"
                 /\ profiles[s].supportLevel = "LOW"
                 /\ proc[p].pc = "idle"
                 /\ IF proc'[p].pc = "returned"
                    THEN proc'[p].op = "createAlertsIfNeeded" /\ proc'[p].arg = s
                    ELSE proc'[p].pc = "al_network" /\ proc'[p].studentId = s)
                => /\ proc'[p].pc = "returned"
                   /\ proc'[p].value = <<>>
                   /\ alerts' = alerts
      ]_vars

\* a profile that once passed the gate has been reset, and a call made after
\* the cooldown of the student's alerts has returned no alert
C9_ResetProfileAfterCooldownNoAlert ==
    \E p \in Procs :
        /\ proc[p].pc = "returned"
        /\ proc[p].op = "createAlertsIfNeeded"
        /\ proc[p].value = <<>>
        /\ proc[p].arg \in DOMAIN profiles
        /\ profiles[proc[p].arg].struggleScore = 10
        /\ profiles[proc[p].arg].contributingSignals = <<>>
        /\ proc[p].arg \in DOMAIN network
        /\ alerts # <<>>
        /\ \A i \in DOMAIN alerts :
              /\ alerts[i].studentId = proc[p].arg
              /\ alerts[i].createdAt < now - COOLDOWN_HOURS

\* C10: on a re-evaluation with a signal in the window the trend is UP exactly
\* when the new score is more than 0.5 above the stored one, DOWN exactly when
\* it is more than 0.5 below it, and STABLE otherwise, also at a difference of
\* exactly 0.5 and without a stored profile.
C10_TrendByHalfPoint ==
    \A p \in Procs :
        (proc[p].pc = "rc_upsert" /\ proc[p].signals # {}) =>
            LET new == proc[p].data.struggleScore
                trend == proc[p].data.trend
                u == proc[p].userId
            IN  IF u \notin DOMAIN profiles THEN trend = "STABLE"
                ELSE /\ trend = "UP" <=> new > profiles[u].struggleScore + 5
                     /\ trend = "DOWN" <=> new < profiles[u].struggleScore - 5
                     /\ trend = "STABLE" <=> /\ new <= profiles[u].struggleScore + 5
                                             /\ new >= profiles[u].struggleScore - 5

-----------------------------------------------------------------------------
(* Support level and alert gate *)

\* C11: every profile recomputeForUser hands to the upsert or has written has
\* supportLevel HIGH exactly when its score is >= 7, MEDIUM exactly when
\* 4 <= score < 7 and LOW exactly when score < 4.
C11_SupportLevelMatchesScore ==
    LET consistent(d) ==
            /\ d.supportLevel \in {"HIGH", "MEDIUM", "LOW"}
            /\ d.supportLevel = "HIGH" <=> d.struggleScore >= 70
            /\ d.supportLevel = "MEDIUM" <=> (d.struggleScore >= 40 /\ d.struggleScore < 70)
            /\ d.supportLevel = "LOW" <=> d.struggleScore < 40
    IN  /\ \A u \in DOMAIN profiles : consistent(profiles[u])
        /\ \A p \in Procs : proc[p].pc = "rc_upsert" => consistent(proc[p].data)

\* a profile with score exactly 7.0 has been written over a non-empty window
C11_ScoreSevenWritten ==
    \E p \in Procs :
        /\ proc[p].pc = "returned"
        /\ proc[p].op = "recomputeForUser"
        /\ profiles[proc[p].arg] = proc[p].value
        /\ proc[p].value.struggleScore = 70
        /\ proc[p].value.supportLevel = "HIGH"

\* C12: createAlertsIfNeeded goes past the gate, and creates an alert, only on
\* a profile with (supportLevel HIGH and trend UP) or score >= 9; on any other
\* stored profile the call returns [] and creates no alert, whatever the care
\* network holds.
C12_AlertsOnlyPastGate ==
    /\ [](\A p \in Procs :
             proc[p].pc \in {"al_network", "al_cooldown", "al_create"} =>
                \/ proc[p].profile.supportLevel = "HIGH" /\ proc[p].profile.trend = "UP"
                \/ proc[p].profile.struggleScore >= 90)
    /\ [][/\ \A p \in Procs, s \in DOMAIN profiles :
              (/\ ~ \/ profiles[s].supportLevel = "HIGH" /\ profiles[s].trend = "UP"
                    \/ profiles[s].struggleScore >= 90
               /\ proc[p].pc = "idle"
               /\ IF proc'[p].pc = "returned"
                  THEN proc'[p].op = "createAlertsIfNeeded" /\ proc'[p].arg = s
                  ELSE proc'[p].pc = "al_network" /\ proc'[p].studentId = s)
              => /\ proc'[p].pc = "returned"
                 /\ proc'[p].value = <<>>
                 /\ alerts' = alerts
          /\ alerts' # alerts =>
                \E p \in Procs :
                    /\ proc[p].pc = "al_create"
                    /\ Len(alerts') = Len(alerts) + 1
                    /\ alerts'[Len(alerts')].studentId = proc[p].studentId
                    /\ \A i \in DOMAIN alerts : alerts'[i] = alerts[i]
         ]_vars

\* a call for a student whose profile is HIGH but not rising and below 9, with
\* a tutor linked and no alert stored, has returned no alert
C12_HighButStableReturnedNone ==
    \E p \in Procs :
        /\ proc[p].pc = "returned"
        /\ proc[p].op = "createAlertsIfNeeded"
        /\ proc[p].value = <<>>
        /\ proc[p].arg \in DOMAIN profiles
        /\ profiles[proc[p].arg].supportLevel = "HIGH"
        /\ profiles[proc[p].arg].trend = "STABLE"
        /\ profiles[proc[p].arg].struggleScore < 90
        /\ proc[p].arg \in DOMAIN network
        /\ alerts = <<>>
        /\ \A q \in Procs : q # p => proc[q].pc = "idle"

\* C13: a profile with score >= 9 passes the gate whatever its trend and
\* support level; the call then visits every tutor of the care network and
\* creates an alert for each tutor without an alert of the pair in the last 24
\* hours; every alert is URGENT exactly when the profile's score is >= 9, SOFT
\* otherwise, and carries that score.
C13_CriticalScoreAlertsEveryTutor ==
    /\ [](\A i \in DOMAIN alerts :
             /\ alerts[i].urgency \in {"URGENT", "SOFT"}
             /\ alerts[i].urgency = "URGENT" <=> alerts[i].struggleScore >= 90)
    /\ [][\A p \in Procs :
             \* score >= 9 passes the gate
             /\ \A s \in DOMAIN profiles :
                   (/\ profiles[s].struggleScore >= 90
                    /\ proc[p].pc = "idle"
                    /\ IF proc'[p].pc = "returned"
                       THEN proc'[p].op = "createAlertsIfNeeded" /\ proc'[p].arg = s
                       ELSE proc'[p].pc = "al_network" /\ proc'[p].studentId = s)
                   => proc'[p].pc = "al_network"
             \* the loop starts over the whole tutor list
             /\ (proc[p].pc = "al_network" /\ proc'[p].pc = "al_cooldown") =>
                   /\ proc'[p].todo = network[proc[p].studentId]
                   /\ proc'[p].created = <<>>
             \* a tutor is skipped only for an alert of the pair in the last 24 hours
             /\ (proc[p].pc = "al_cooldown" /\ proc'[p] # proc[p]) =>
                   LET t == Head(proc[p].todo)
                       recent == \E i \in DOMAIN alerts :
                                    /\ alerts[i].tutorId = t
                                    /\ alerts[i].studentId = proc[p].studentId
                                    /\ now - alerts[i].createdAt <= 24
                   IN  /\ proc'[p].pc = "al_create" <=> ~ recent
                       /\ proc'[p].pc = "al_create" => proc'[p].todo = proc[p].todo
                       /\ proc'[p].pc = "al_cooldown" => proc'[p].todo = Tail(proc[p].todo)
                       /\ proc'[p].pc = "returned" => Len(proc[p].todo) = 1
             \* the alert created is the tutor's, with the profile's score
             /\ (proc[p].pc = "al_create" /\ proc'[p] # proc[p]) =>
                   LET a == alerts'[Len(alerts')]
                       s == proc[p].studentId
                   IN  /\ Len(alerts') = Len(alerts) + 1
                       /\ a.tutorId = Head(proc[p].todo)
                       /\ a.studentId = s
                       /\ a.createdAt = now
                       /\ a.struggleScore = profiles[s].struggleScore
                       /\ a.urgency = "URGENT" <=> profiles[s].struggleScore >= 90
                       /\ proc'[p].pc = "al_cooldown" => proc'[p].todo = Tail(proc[p].todo)
                       /\ proc'[p].pc = "returned" =>
                             /\ Len(proc[p].todo) = 1
                             /\ proc'[p].value = Append(proc[p].created, Len(alerts'))
         ]_vars

\* a call on a profile of score >= 9 that is not rising has returned two
\* alerts, one per linked tutor, both URGENT
C13_CriticalNotRisingAlertedBoth ==
    \E p \in Procs :
        /\ proc[p].pc = "returned"
        /\ proc[p].op = "createAlertsIfNeeded"
        /\ Len(proc[p].value) = 2
        /\ profiles[proc[p].arg].trend = "STABLE"
        /\ profiles[proc[p].arg].struggleScore >= 90
        /\ \A k \in 1..2 :
              /\ alerts[proc[p].value[k]].urgency = "URGENT"
              /\ alerts[proc[p].value[k]].tutorId = network[proc[p].arg][k]
              /\ alerts[proc[p].value[k]].struggleScore = profiles[proc[p].arg].struggleScore

-----------------------------------------------------------------------------
(* Missing data *)

\* C14: missing data raises no error.  createAlertsIfNeeded returns [] and
\* writes nothing without a profile, without a care-network document or with
\* an empty tutor list; recomputeForUser without a signal in the window
\* returns the baseline profile; checkBreakthrough without a profile returns
\* null.
C14_MissingDataReturnsEmpty ==
    [][\A p \in Procs :
          /\ proc'[p].pc # "threw"
          /\ \A s \in Students :
                (/\ s \notin DOMAIN profiles
                 /\ proc[p].pc = "idle"
                 /\ IF proc'[p].pc = "returned"
                    THEN proc'[p].op = "createAlertsIfNeeded" /\ proc'[p].arg = s
                    ELSE proc'[p].pc = "al_network" /\ proc'[p].studentId = s)
                => /\ proc'[p].pc = "returned"
                   /\ proc'[p].value = <<>>
                   /\ UNCHANGED <<interactions, signals, profileDocs, network, alerts>>
          /\ (/\ proc[p].pc = "al_network"
              /\ proc'[p] # proc[p]
              /\ \/ proc[p].studentId \notin DOMAIN network
                 \/ network[proc[p].studentId] = <<>>)
             => /\ proc'[p].pc = "returned"
                /\ proc'[p].op = "createAlertsIfNeeded"
                /\ proc'[p].value = <<>>
                /\ UNCHANGED <<interactions, signals, profileDocs, network, alerts>>
          /\ (/\ proc[p].pc \in {"rc_upsert", "rc_insert"}
              /\ proc'[p].pc \notin {"rc_upsert", "rc_insert"}
              /\ \A x \in BagToSet(signals) :
                    x.userId = proc[p].userId => x.createdAt < now - 24)
             => /\ proc'[p].pc = "returned"
                /\ proc'[p].value =
                      [struggleScore |-> 10, trend |-> "STABLE", supportLevel |-> "LOW",
                       contributingSignals |-> <<>>, lastReasonSummary |-> <<>>]
          /\ (/\ proc[p].pc = "idle"
              /\ proc'[p].pc = "returned"
              /\ proc'[p].op = "checkBreakthrough"
              /\ proc'[p].arg \notin DOMAIN profiles)
             => /\ proc'[p].value = [null |-> TRUE]
                /\ UNCHANGED <<interactions, signals, profileDocs, network, alerts>>
      ]_vars

\* a call on a profile that passes the gate has returned no alert because the
\* care-network document has no tutor
C14_EmptyTutorListReturnedNone ==
    \E p \in Procs :
        /\ proc[p].pc = "returned"
        /\ proc[p].op = "createAlertsIfNeeded"
        /\ proc[p].value = <<>>
        /\ proc[p].arg \in DOMAIN profiles
        /\ GateOpen(profiles[proc[p].arg])
        /\ proc[p].arg \in DOMAIN network
        /\ network[proc[p].arg] = <<>>
        /\ alerts = <<>>

-----------------------------------------------------------------------------
(* One profile per user *)

\* the number of StruggleProfile documents of user u
ProfileCount(u) ==
    LET S == {d \in BagToSet(profileDocs) : d.userId = u}
    IN  SumOver([d \in S |-> CopiesIn(d, profileDocs)], S)

\* C15: the collection never holds more than one StruggleProfile of a user;
\* once a recomputeForUser of the user has returned it holds exactly one; and
\* a recomputeForUser that completes while the document exists, alone or
\* racing another call for the same user, rewrites that document and adds
\* none.
C15_OneProfilePerUser ==
    [][ \A u \in Students :
          /\ ProfileCount(u) <= 1
          /\ ProfileCount(u)' <= 1
          /\ ProfileCount(u)' >= ProfileCount(u)
          /\ \A p \in Procs :
                /\ (/\ proc'[p].pc = "returned"
                    /\ proc'[p].op = "recomputeForUser"
                    /\ proc'[p].arg = u)
                   => ProfileCount(u)' = 1
                /\ (/\ proc[p].pc \in {"rc_upsert", "rc_insert"}
                    /\ proc[p].userId = u
                    /\ proc'[p].pc = "returned"
                    /\ ProfileCount(u) = 1)
                   => /\ ProfileCount(u)' = 1
                      /\ profiles'[u] = proc[p].data
      ]_vars

\* an upsert that found no document of the user is about to insert one while
\* a racing call has inserted the user's document
C15_RacingFirstUpserts ==
    \E p, q \in Procs :
        /\ p # q
        /\ proc[p].pc = "rc_insert"
        /\ proc[q].pc = "returned"
        /\ proc[q].op = "recomputeForUser"
        /\ proc[q].arg = proc[p].userId
        /\ ProfileCount(proc[p].userId) = 1

-----------------------------------------------------------------------------
(* The stages and the request around them *)

\* the stage whose step a change of service frame p is, "" for the caller's
\* resumption
StageOfStep(p) ==
    LET from == proc[p]
        to == proc'[p]
        ofPc(pc) == IF pc = "ex_create" THEN "extractSignalsFromInteraction"
                    ELSE IF pc \in {"rc_prev", "rc_upsert", "rc_insert"}
                    THEN "recomputeForUser"
                    ELSE IF pc \in {"al_network", "al_cooldown", "al_create"}
                    THEN "createAlertsIfNeeded"
                    ELSE ""
    IN  IF from.pc \in {"returned", "threw"} THEN ""
        ELSE IF from.pc # "idle" THEN ofPc(from.pc)
        ELSE IF to.pc \in {"returned", "threw"} THEN to.op
        ELSE ofPc(to.pc)

\* C16: a step of extractSignalsFromInteraction changes no collection but
\* signals, a step of recomputeForUser none but the profile of its user, a step
\* of createAlertsIfNeeded none but alerts; so the step in which the aggregator
\* or the dispatcher fails leaves the signals as they were, and the
\* dispatcher's the profiles too.
C16_StageWritesOwnCollection ==
    [][ \A p \in Procs :
          proc'[p] # proc[p] =>
            /\ StageOfStep(p) = "extractSignalsFromInteraction" =>
                  UNCHANGED <<interactions, profileDocs, network, alerts>>
            /\ StageOfStep(p) = "recomputeForUser" =>
                  /\ UNCHANGED <<interactions, signals, network, alerts>>
                  /\ \A d \in BagToSet(profileDocs) \cup BagToSet(profileDocs') :
                        (/\ proc[p].pc # "idle"
                         /\ d.userId # proc[p].userId)
                        => CopiesIn(d, profileDocs') = CopiesIn(d, profileDocs)
            /\ StageOfStep(p) = "createAlertsIfNeeded" =>
                  UNCHANGED <<interactions, signals, profileDocs, network>>
            /\ (proc'[p].pc = "threw" /\ StageOfStep(p) = "recomputeForUser") =>
                  signals' = signals
            /\ (proc'[p].pc = "threw" /\ StageOfStep(p) = "createAlertsIfNeeded") =>
                  /\ signals' = signals
                  /\ profileDocs' = profileDocs
      ]_vars

\* the aggregator of a request has failed, and the signals the extractor of
\* the same request recorded are stored
C16_AggregatorFailedSignalsKept ==
    \E r \in Routes :
        /\ proc[r].pc = "rt_recompute"
        /\ proc[Callee(r)].pc = "threw"
        /\ proc[Callee(r)].op = "recomputeForUser"
        /\ \E d \in BagToSet(signals) : d.interactionId = proc[r].requestId
        /\ proc[r].userId \in DOMAIN profiles

\* C17: a successful student request whose pipeline stage rejected ends like
\* one whose pipeline succeeded: the rejection is caught in the handler, and
\* the handler has sent the success response of its request, once, and nothing
\* else.
C17_StageErrorKeepsResponse ==
    \A r \in Routes :
        /\ proc[r].pc # "idle" => Len(proc[r].sent) <= 1
        /\ (proc[r].pc = "rt_done" /\ proc[r].success) =>
              /\ proc[r].sent = <<SuccessResponse(proc[r].requestId)>>
              /\ proc[Callee(r)].pc = "idle"

\* a request has ended with the success response after its aggregator rejected
\* with the duplicate-key error
C17_CaughtAndAnswered ==
    \E r \in Routes :
        /\ proc[r].pc = "rt_done"
        /\ proc[r].success
        /\ proc[r].caught = <<11000>>
        /\ proc[r].sent = <<SuccessResponse(proc[r].requestId)>>

\* C18: the response of a student request is sent before its first pipeline
\* stage starts: a handler that has called a stage has sent its response.
C18_ResponseBeforePipeline ==
    \A r \in Routes :
        (\/ proc[r].pc \in {"rt_recompute", "rt_alerts"}
         \/ proc[r].pc = "rt_extract" /\ proc[Callee(r)].pc # "idle")
        => proc[r].sent # <<>>

\* C19: when the server stops with requests inside the pipeline, the
\* collections are left as they were and well-formed: one signal per
\* interaction and kind, one profile per user at most, each with a score in
\* [1, 10] and the level of its score.  The aggregation of the next request
\* reads every signal of the user still inside the window, those of a request
\* that stopped between extraction and aggregation among them, and the profile
\* it persists has the score of exactly those signals.
C19_StoppedRunIsCaughtUp ==
    [][ LET StoreValid ==
                /\ \A d \in BagToSet(signals) : CopiesIn(d, signals) = 1
                /\ \A d, e \in BagToSet(signals) :
                      (d.interactionId = e.interactionId /\ d.signalType = e.signalType)
                      => d = e
                /\ \A u \in Students : ProfileCount(u) <= 1
                /\ \A u \in DOMAIN profiles :
                      /\ profiles[u].struggleScore \in 10..100
                      /\ profiles[u].supportLevel = SupportLevelOf(profiles[u].struggleScore)
        IN  /\ (\E r \in Routes : proc[r].pc \in InPipeline /\ proc'[r].pc = "rt_stopped")
               => /\ UNCHANGED <<interactions, signals, profileDocs, network, alerts>>
                  /\ StoreValid'
            /\ \A r \in Routes :
                  LET p == Callee(r)
                  IN  /\ (/\ proc[r].pc = "rt_recompute"
                          /\ proc[p].pc = "idle"
                          /\ proc'[p].pc \in {"rc_prev", "rc_upsert"})
                         => /\ proc'[p].signals =
                                  {d \in BagToSet(signals) :
                                      /\ d.userId = proc[r].userId
                                      /\ d.createdAt >= now - 24}
                            /\ \A q \in Routes :
                                  (/\ proc[q].pc = "rt_stopped"
                                   /\ proc[q].stage = "rt_recompute")
                                  => \A d \in BagToSet(signals) :
                                        (/\ d.interactionId = proc[q].requestId
                                         /\ d.createdAt >= now - 24)
                                        => d \in proc'[p].signals
                      /\ (/\ proc[r].pc = "rt_recompute"
                          /\ proc[p].pc \in {"rc_upsert", "rc_insert"}
                          /\ proc'[p].pc = "returned")
                         => profiles'[proc[r].userId].struggleScore =
                               IF proc[p].signals = {} THEN 10
                               ELSE ScoreOf(Aggregate(proc[p].signals))
      ]_vars

\* a request has run its pipeline to the end after an earlier request stopped
\* between extraction and aggregation, and the stored score is the score of the
\* signals in the window and would be another without the stopped request's
C19_LaterRunCountedStoppedSignals ==
    \E q, r \in Routes :
        /\ proc[q].pc = "rt_stopped"
        /\ proc[q].stage = "rt_recompute"
        /\ proc[r].pc = "rt_done"
        /\ proc[r].success
        /\ proc[r].caught = <<>>
        /\ proc[r].requestId > proc[q].requestId
        /\ proc[r].userId \in DOMAIN profiles
        /\ LET inWindow == SignalsInWindow(proc[r].userId, now)
               others == {d \in inWindow : d.interactionId # proc[q].requestId}
           IN  /\ inWindow # others
               /\ profiles[proc[r].userId].struggleScore = ScoreOf(Aggregate(inWindow))
               /\ ScoreOf(Aggregate(others)) # ScoreOf(Aggregate(inWindow))

-----------------------------------------------------------------------------
(* Reading alerts *)

\* C20: markAsRead(alertId, tutorId) with the id of no alert or of an alert
\* addressed to another tutor resolves to null, answered as 404, and leaves
\* every alert as it was; with the id of an alert of tutorId it sets the read
\* flag of that alert, resolves to it, and changes no other field and no other
\* alert.  No other collection changes either way.
C20_MarkAsReadOwnAlertOnly ==
    [][ \A p \in Procs :
          (/\ proc[p].pc = "idle"
           /\ proc'[p].pc = "returned"
           /\ proc'[p].op = "markAsRead")
          => LET alertId == proc'[p].arg[1]
                 tutorId == proc'[p].arg[2]
             IN  /\ UNCHANGED <<interactions, signals, profileDocs, network>>
                 /\ IF alertId \in DOMAIN alerts /\ alerts[alertId].tutorId = tutorId
                    THEN /\ DOMAIN alerts' = DOMAIN alerts
                         /\ \A k \in DOMAIN alerts :
                               alerts'[k] = IF k = alertId
                                            THEN [alerts[k] EXCEPT !.isRead = TRUE]
                                            ELSE alerts[k]
                         /\ proc'[p].value.alert = alerts'[alertId]
                         /\ proc'[p].value.statusCode = 200
                    ELSE /\ alerts' = alerts
                         /\ proc'[p].value.alert = [null |-> TRUE]
                         /\ proc'[p].value.statusCode = 404
      ]_vars

\* a tutor's call with the id of an unread alert of another tutor was answered
\* 404, and the alert is unread, while an alert of the caller has been read
C20_OtherTutorsAlertRefused ==
    \E p \in Procs :
        /\ proc[p].pc = "returned"
        /\ proc[p].op = "markAsRead"
        /\ proc[p].value.statusCode = 404
        /\ proc[p].arg[1] \in DOMAIN alerts
        /\ alerts[proc[p].arg[1]].tutorId # proc[p].arg[2]
        /\ ~alerts[proc[p].arg[1]].isRead
        /\ \E k \in DOMAIN alerts :
              alerts[k].tutorId = proc[p].arg[2] /\ alerts[k].isRead

-----------------------------------------------------------------------------
(* What the tutor-facing text is made of *)

\* the words and topic labels learners have typed
RawLearnerText ==
    UNION {interactions[i].inputText : i \in DOMAIN interactions}
    \cup {interactions[i].topic : i \in DOMAIN interactions}
    \cup {d.topic : d \in BagToSet(signals)}

\* the labels the reason summary is joined from
KindLabels == {Label[k] : k \in Kinds}

\* the strings of a joined text
Texts(seq) == {seq[i] : i \in DOMAIN seq}

\* C21: every stored alert has the fixed template as reasonSummary and a topic
\* that is "current topic" or a list of signal-kind labels, the one of the
\* profile it was created from; every profile's reason summary and
\* contributing-signal list hold kind labels, weights and magnitudes only; no
\* word or topic label a learner typed is in either; and two learners' profiles
\* with the same kinds and magnitudes have the same text, whatever the wording
\* and topic of their questions.
C21_NoRawLearnerData ==
    /\ [](/\ \A k \in DOMAIN alerts :
                /\ alerts[k].reasonSummary = ALERT_TEMPLATE
                /\ \/ alerts[k].topic = <<"current topic">>
                   \/ alerts[k].topic # <<>> /\ Texts(alerts[k].topic) \subseteq KindLabels
                /\ Texts(alerts[k].topic) \cap RawLearnerText = {}
          /\ \A u \in DOMAIN profiles :
                /\ Texts(profiles[u].lastReasonSummary) \subseteq KindLabels
                /\ Texts(profiles[u].lastReasonSummary) \cap RawLearnerText = {}
                /\ \A i \in DOMAIN profiles[u].contributingSignals :
                      /\ DOMAIN profiles[u].contributingSignals[i]
                            = {"signalType", "weight", "value"}
                      /\ profiles[u].contributingSignals[i].signalType \in Kinds
          /\ \A u, v \in DOMAIN profiles :
                profiles[u].contributingSignals = profiles[v].contributingSignals
                => profiles[u].lastReasonSummary = profiles[v].lastReasonSummary)
    /\ [][ \A p \in Procs :
             (proc[p].pc = "al_create" /\ alerts' # alerts)
             => alerts'[Len(alerts')].topic =
                   IF proc[p].profile.lastReasonSummary # <<>>
                   THEN proc[p].profile.lastReasonSummary
                   ELSE <<"current topic">>
       ]_vars

\* two learners who asked in different words about different topics have
\* profiles with the same kinds and magnitudes, and each an alert, and profile
\* text and alert text are the same for both
C21_SameTextForBothLearners ==
    /\ \E i, j \in DOMAIN interactions :
          /\ interactions[i].userId = "s1"
          /\ interactions[j].userId = "s2"
          /\ interactions[i].topic # interactions[j].topic
          /\ interactions[i].inputText \cap interactions[j].inputText = {}
          /\ \E d \in BagToSet(signals) : d.interactionId = i
          /\ \E d \in BagToSet(signals) : d.interactionId = j
    /\ {"s1", "s2"} \subseteq DOMAIN profiles
    /\ profiles["s1"].contributingSignals # <<>>
    /\ profiles["s1"].contributingSignals = profiles["s2"].contributingSignals
    /\ profiles["s1"].lastReasonSummary = profiles["s2"].lastReasonSummary
    /\ \E a, b \in DOMAIN alerts :
          /\ alerts[a].studentId = "s1"
          /\ alerts[b].studentId = "s2"
          /\ alerts[a].topic = alerts[b].topic
          /\ alerts[a].reasonSummary = alerts[b].reasonSummary

-----------------------------------------------------------------------------
(* The repeated-topic rule over long histories *)

\* same-topic interactions saved before the fillers, at most
MaxOld == 5

\* how many interactions of another topic lie between the old ones and the
\* current one
FillerCounts == {0, 1, FIND_LIMIT - 4, FIND_LIMIT - 3, FIND_LIMIT - 2,
                 FIND_LIMIT - 1, FIND_LIMIT}

\* a learner's history: nOld interactions on "recursion" at hour 0, nFill on
\* "pointers" at hour 6 and the current one on "recursion" at hour 12
TopicHistory(nOld, nFill) ==
    [k \in 1..(nOld + nFill + 1) |->
        IF k <= nOld THEN InteractionDoc(PlainInput, 0)
        ELSE IF k <= nOld + nFill
        THEN InteractionDoc([PlainInput EXCEPT !.topic = "pointers"], 6)
        ELSE InteractionDoc(PlainInput, 12)]

InitTopic ==
    /\ now \in {12, 30}
    /\ \E nOld \in 0..MaxOld, nFill \in FillerCounts :
          interactions = TopicHistory(nOld, nFill)
    /\ signals = EmptyBag
    /\ profileDocs = EmptyBag
    /\ network = EmptyMap
    /\ alerts = <<>>
    /\ proc = [p \in Procs |-> Idle]

\* extractions of the current interaction
NextTopic ==
    \/ ExtractFindRecent("p1", Len(interactions))
    \/ ExtractCreate("p1")
    \/ Resume("p1")

SpecTopic == InitTopic /\ [][NextTopic]_vars

\* how often the topic label of interaction i occurs among its user's
\* interactions of the lookback window at time t
TopicOccurrences(i, t) ==
    Cardinality({j \in InWindow(interactions[i].userId, t) :
                    interactions[j].topic = interactions[i].topic})

\* the REPEATED_TOPIC payloads among the payloads a frame of
\* extractSignalsFromInteraction has after its find
RepeatedPayloads(l) ==
    IF l.pc = "ex_create"
    THEN {l.signalPayloads[k].value : k \in
             {n \in DOMAIN l.signalPayloads :
                 l.signalPayloads[n].signalType = "REPEATED_TOPIC"}}
    ELSE {}

\* C22: the repeated-topic rule fires exactly when the topic label of the
\* interaction occurs at least 3 times among the user's interactions of the
\* lookback window: with 2 occurrences no REPEATED_TOPIC signal, with 3 one of
\* magnitude 0.5, with 5 or more one of magnitude 1.
C22_RepeatedTopicFromThree ==
    [][ \A p \in Procs :
          (proc[p].pc = "idle" /\ proc'[p].pc \in {"ex_create", "returned"})
          => LET i == IF proc'[p].pc = "ex_create"
                      THEN proc'[p].interactionId ELSE proc'[p].arg
                 n == TopicOccurrences(i, now)
                 fired == RepeatedPayloads(proc'[p])
             IN  /\ (fired # {}) <=> (n >= 3)
                 /\ n = 3 => fired = {Scale \div 2}
                 /\ n >= 5 => fired = {Scale}
      ]_vars

-----------------------------------------------------------------------------
(* Reason summary and contributing signals *)

\* the place of kind k in the weight table
TablePosition(k) == CHOOSE i \in DOMAIN WeightOrder : WeightOrder[i] = k

\* kind k ranks before kind m: heavier, or as heavy and earlier in the table
RanksBefore(k, m) ==
    \/ WEIGHTS[k] > WEIGHTS[m]
    \/ WEIGHTS[k] = WEIGHTS[m] /\ TablePosition(k) < TablePosition(m)

\* the kinds with a signal of non-zero magnitude among the signals S
NonZeroKinds(S) == {k \in Kinds : \E d \in S : d.signalType = k /\ d.value > 0}

\* C23: the reason summary recomputeForUser hands to the upsert names at most
\* two kinds, the two highest-weighted kinds among those whose largest
\* in-window magnitude is non-zero (equal weights in table order), and the
\* contributing-signal list holds exactly the kinds of non-zero magnitude, each
\* once, in non-increasing weight order.
C23_SummaryNamesTopTwoKinds ==
    \A p \in Procs :
        proc[p].pc \in {"rc_upsert", "rc_insert"} =>
            LET S == proc[p].signals
                nz == NonZeroKinds(S)
                cs == proc[p].data.contributingSignals
                rs == proc[p].data.lastReasonSummary
                named == {k \in Kinds : \E i \in DOMAIN rs : rs[i] = Label[k]}
            IN  /\ Len(rs) <= 2
                /\ Len(rs) = Cardinality(named)
                /\ named \subseteq nz
                /\ Cardinality(named) = IF Cardinality(nz) >= 2 THEN 2
                                        ELSE Cardinality(nz)
                /\ \A k \in named, m \in nz \ named : RanksBefore(k, m)
                /\ \A i, j \in DOMAIN rs :
                      i < j => \A k, m \in Kinds :
                                  (rs[i] = Label[k] /\ rs[j] = Label[m]) => RanksBefore(k, m)
                /\ {cs[i].signalType : i \in DOMAIN cs} = nz
                /\ Len(cs) = Cardinality(nz)
                /\ \A i, j \in DOMAIN cs : i < j => cs[i].weight >= cs[j].weight
                /\ \A i \in DOMAIN cs :
                      /\ cs[i].weight = WEIGHTS[cs[i].signalType]
                      /\ \E d \in S : /\ d.signalType = cs[i].signalType
                                      /\ d.value = cs[i].value
                      /\ \A d \in S : d.signalType = cs[i].signalType
                                         => d.value <= cs[i].value

\* written from three equally weighted kinds and a hint signal of magnitude 0:
\* the list holds the three, the summary the first two of the table
C23_TieAndZeroWritten ==
    \E p \in Procs :
        /\ proc[p].pc = "returned"
        /\ proc[p].op = "recomputeForUser"
        /\ profiles[proc[p].arg] = proc[p].value
        /\ \E d \in BagToSet(signals) :
              /\ d.userId = proc[p].arg
              /\ d.signalType = "HINT_DEPENDENCY"
              /\ d.value = 0
              /\ d.createdAt >= now - WINDOW_HOURS
        /\ Len(proc[p].value.contributingSignals) = 3
        /\ \A i \in 1..3 : proc[p].value.contributingSignals[i].weight = 15
        /\ proc[p].value.lastReasonSummary = <<"negative sentiment", "engagement drop">>

-----------------------------------------------------------------------------
(* Rejected writes *)

\* the pcs at which a stage awaits a write
WritePcs == {"ex_create", "rc_upsert", "rc_insert", "al_create"}

\* the stage a write pc belongs to
OpOfPc(pc) ==
    IF pc = "ex_create" THEN "extractSignalsFromInteraction"
    ELSE IF pc = "al_create" THEN "createAlertsIfNeeded"
    ELSE "recomputeForUser"

\* C24: no retries.  A stage whose write is rejected with an error other than
\* the duplicate key error ends with that error and stores nothing in the step
\* (a rejected signal write is not counted as skipped); its frame then only
\* ends; the handler's catch clause takes the error and goes to the response
\* without running a later stage; and a handler that has caught an error runs
\* no stage again: the rejected write, and every write of the invocation, is
\* attempted once.
C24_NoRetryAfterRejectedWrite ==
    /\ [][ \A p \in Procs :
             /\ (proc[p].pc \in WritePcs /\ proc'[p].pc = "threw"
                                         /\ proc'[p].value # 11000)
                => /\ proc'[p].op = OpOfPc(proc[p].pc)
                   /\ proc'[p].value \in FaultCodes
                   /\ UNCHANGED <<signals, profileDocs, alerts>>
             /\ (/\ proc[p].pc = "ex_create"
                 /\ proc'[p] # proc[p]
                 /\ signals' = signals
                 /\ ~DuplicateKey(proc[p].signalPayloads[proc[p].next]))
                => proc'[p].pc = "threw"
             /\ (proc[p].pc = "al_create" /\ proc'[p] # proc[p] /\ alerts' = alerts)
                => proc'[p].pc = "threw"
             /\ proc[p].pc = "threw" => proc'[p].pc \in {"threw", "idle"}
             /\ (proc[p].pc = "ex_create" /\ proc'[p].pc = "ex_create")
                => proc'[p].next >= proc[p].next
             /\ (proc[p].pc = "ex_create" /\ proc'[p].pc = "ex_create"
                                          /\ proc'[p] # proc[p])
                => proc'[p].next = proc[p].next + 1
       ]_vars
    /\ [][ \A r \in Routes :
             (/\ proc[r].pc \in InPipeline
              /\ proc[Callee(r)].pc = "threw"
              /\ proc'[r] # proc[r])
             => /\ proc'[r].pc = "rt_done"
                /\ proc'[r].caught = <<proc[Callee(r)].value>>
                /\ proc'[Callee(r)] = Idle
       ]_vars
    /\ [](\A r \in Routes :
             (proc[r].pc # "idle" /\ proc[r].caught # <<>>)
             => /\ proc[r].pc = "rt_done"
                /\ proc[Callee(r)] = Idle)

\* a handler has answered after its extraction stage was rejected a write: no
\* signal of its interaction is stored and no profile was written
C24_RejectedInExtraction ==
    \E r \in Routes :
        /\ proc[r].pc = "rt_done"
        /\ proc[r].success
        /\ \E err \in FaultCodes : proc[r].caught = <<err>>
        /\ proc[r].sent = <<SuccessResponse(proc[r].requestId)>>
        /\ ~ \E d \in BagToSet(signals) : d.interactionId = proc[r].requestId
        /\ proc[r].userId \notin DOMAIN profiles
        /\ alerts = <<>>

-----------------------------------------------------------------------------
(* Re-evaluation *)

\* the largest magnitude of kind k among the signals S, 0 without one
LargestOf(S, k) ==
    IF \E d \in S : d.signalType = k
    THEN (CHOOSE d \in S : /\ d.signalType = k
                           /\ \A e \in S : e.signalType = k => e.value <= d.value).value
    ELSE 0

\* the profile data was computed from signals with the per-kind maxima of S
ComputedFromSame(data, S) ==
    /\ \A k \in Kinds :
          LargestOf(S, k) > 0 =>
             \E i \in DOMAIN data.contributingSignals :
                /\ data.contributingSignals[i].signalType = k
                /\ data.contributingSignals[i].value = LargestOf(S, k)
    /\ \A i \in DOMAIN data.contributingSignals :
          LargestOf(S, data.contributingSignals[i].signalType)
             = data.contributingSignals[i].value

\* a call of recomputeForUser for a user with a stored profile writes
WritesOver(p) ==
    /\ proc[p].pc \in {"rc_upsert", "rc_insert"}
    /\ proc'[p].pc = "returned"
    /\ proc[p].userId \in DOMAIN profiles

\* a re-evaluation over the signals the stored profile was computed from
\* writes the stored score, support level, contributing signals and reason
\* summary again, with trend STABLE
RerunKeepsAllButTrend(p) ==
    (WritesOver(p) /\ proc[p].signals # {}
                   /\ ComputedFromSame(profiles[proc[p].userId], proc[p].signals))
    => LET old == profiles[proc[p].userId]
           new == profiles'[proc[p].userId]
       IN  /\ new.struggleScore = old.struggleScore
           /\ new.supportLevel = old.supportLevel
           /\ new.contributingSignals = old.contributingSignals
           /\ new.lastReasonSummary = old.lastReasonSummary
           /\ new.trend = "STABLE"

\* a profile passes the gate of createAlertsIfNeeded
AlertEligible(d) ==
    (d.supportLevel = "HIGH" /\ d.trend = "UP") \/ d.struggleScore >= 90

\* C25: re-running recomputeForUser over unchanged in-window signals leaves
\* score, support level, contributing signals and reason summary as stored
\* and stores trend STABLE; and a profile that is HIGH with trend UP and score
\* below 9 is not alert-eligible after a re-evaluation that does not raise the
\* score by more than 0.5.
C25_RerunClosesGate ==
    [][ \A p \in Procs :
          /\ RerunKeepsAllButTrend(p)
          /\ (/\ WritesOver(p)
              /\ profiles[proc[p].userId].supportLevel = "HIGH"
              /\ profiles[proc[p].userId].trend = "UP"
              /\ profiles[proc[p].userId].struggleScore < 90
              /\ proc[p].data.struggleScore <= profiles[proc[p].userId].struggleScore + 5)
             => ~AlertEligible(profiles'[proc[p].userId])
      ]_vars

\* C25, amended: as above, for a re-evaluation that does not raise the score
\* by more than 0.5 and leaves it below 9.
C25_RerunBelowNineClosesGate ==
    [][ \A p \in Procs :
          /\ RerunKeepsAllButTrend(p)
          /\ (/\ WritesOver(p)
              /\ profiles[proc[p].userId].supportLevel = "HIGH"
              /\ profiles[proc[p].userId].trend = "UP"
              /\ profiles[proc[p].userId].struggleScore < 90
              /\ proc[p].data.struggleScore <= profiles[proc[p].userId].struggleScore + 5
              /\ proc[p].data.struggleScore < 90)
             => ~AlertEligible(profiles'[proc[p].userId])
      ]_vars

\* a HIGH profile with trend UP and score below 9, for which no tutor was
\* alerted, is about to be overwritten by a re-evaluation of the same signals:
\* same score, trend STABLE
C25_UpAboutToBecomeStable ==
    \E p \in Procs :
        /\ proc[p].pc = "rc_upsert"
        /\ proc[p].userId \in DOMAIN profiles
        /\ proc[p].signals # {}
        /\ ComputedFromSame(profiles[proc[p].userId], proc[p].signals)
        /\ profiles[proc[p].userId].supportLevel = "HIGH"
        /\ profiles[proc[p].userId].trend = "UP"
        /\ profiles[proc[p].userId].struggleScore < 90
        /\ proc[p].data.struggleScore = profiles[proc[p].userId].struggleScore
        /\ proc[p].data.trend = "STABLE"
        /\ proc[p].data.supportLevel = "HIGH"
        /\ alerts = <<>>

-----------------------------------------------------------------------------
(* Baseline reset and breakthrough *)

-----------------------------------------------------------------------------
(* What an alert records *)

\* the tutors of student s in the care network
TutorsOf(s) ==
    IF s \in DOMAIN network THEN {network[s][k] : k \in DOMAIN network[s]} ELSE {}

\* C27: with every profile written by recomputeForUser, every alert
\* createAlertsIfNeeded creates has struggleScore >= 7, the score of the
\* profile the call read; a SOFT alert has a score in [7, 9) and the profile it
\* was created from has trend UP; and the tutor of the alert is in the
\* student's care network when the alert is created.
C27_AlertScoreUrgencyAndTutor ==
    /\ [](\A i \in DOMAIN alerts :
             /\ alerts[i].struggleScore >= 70
             /\ alerts[i].urgency \in {"SOFT", "URGENT"}
             /\ alerts[i].urgency = "SOFT" => alerts[i].struggleScore < 90)
    /\ [][ \A p \in Procs :
             (proc[p].pc = "al_create" /\ proc'[p] # proc[p] /\ alerts' # alerts)
             => LET new == alerts'[Len(alerts')]
                IN  /\ Len(alerts') = Len(alerts) + 1
                    /\ new.studentId = proc[p].studentId
                    /\ new.struggleScore = proc[p].profile.struggleScore
                    /\ new.urgency = "SOFT" => proc[p].profile.trend = "UP"
                    /\ new.tutorId \in TutorsOf(new.studentId)
       ]_vars

\* a SOFT alert stands for each of two tutors of the student's care network
C27_SoftAlertsForBothTutors ==
    \E i, j \in DOMAIN alerts :
        /\ alerts[i].tutorId # alerts[j].tutorId
        /\ alerts[i].studentId = alerts[j].studentId
        /\ alerts[i].urgency = "SOFT"
        /\ alerts[j].urgency = "SOFT"
        /\ alerts[i].struggleScore < 90
        /\ {alerts[i].tutorId, alerts[j].tutorId} \subseteq TutorsOf(alerts[i].studentId)

-----------------------------------------------------------------------------
(* The route and failed interactions *)

\* C28: a handler of the student route is in a pipeline stage only when the
\* tutoring call reported success and its interaction is stored; the stored
\* interaction of a request has status FAILED exactly when the call reported
\* no success; and no FAILED_ATTEMPT signal is stored for the interaction of
\* any request.
C28_RouteCreatesNoFailedAttempt ==
    /\ \A r \in Routes :
          /\ proc[r].pc \in {"rt_extract", "rt_recompute", "rt_alerts"}
             => /\ proc[r].success
                /\ proc[r].requestId \in DOMAIN interactions
          /\ proc[r].pc # "idle"
             => /\ proc[r].requestId \in DOMAIN interactions
                /\ interactions[proc[r].requestId].status = "FAILED"
                      <=> ~proc[r].success
          /\ (proc[r].pc # "idle" /\ ~proc[r].success)
             => /\ proc[r].pc = "rt_done"
                /\ proc[Callee(r)].pc = "idle"
    /\ \A d \in BagToSet(signals) :
          d.interactionId \in DOMAIN interactions => d.signalType # "FAILED_ATTEMPT"

\* one request was answered 502 with its interaction stored as FAILED and no
\* signal of it, another went through the pipeline and left a signal
C28_FailedRequestLeftNoSignal ==
    \E r, q \in Routes :
        /\ proc[r].pc = "rt_done"
        /\ ~proc[r].success
        /\ proc[r].sent = <<ErrorResponse(proc[r].requestId)>>
        /\ interactions[proc[r].requestId].status = "FAILED"
        /\ ~ \E d \in BagToSet(signals) : d.interactionId = proc[r].requestId
        /\ proc[q].pc = "rt_done"
        /\ proc[q].success
        /\ \E d \in BagToSet(signals) : d.interactionId = proc[q].requestId

-----------------------------------------------------------------------------
(* Read flag and cooldown *)

\* C29: every alert stays stored and a read alert stays read, whatever is
\* called; and the cooldown lookup of createAlertsIfNeeded for a pair with a
\* read alert created less than COOLDOWN_HOURS ago finds it: the call moves
\* on without creating an alert for the pair.
C29_ReadStaysReadAndBlocks ==
    [][ /\ \A k \in DOMAIN alerts :
              /\ k \in DOMAIN alerts'
              /\ alerts[k].isRead => alerts'[k].isRead
        /\ \A p \in Procs :
              (/\ proc[p].pc = "al_cooldown"
               /\ proc'[p] # proc[p]
               /\ \E i \in DOMAIN alerts :
                     /\ alerts[i].tutorId = Head(proc[p].todo)
                     /\ alerts[i].studentId = proc[p].studentId
                     /\ alerts[i].isRead
                     /\ now - alerts[i].createdAt < COOLDOWN_HOURS)
              => /\ proc'[p].pc # "al_create"
                 /\ alerts' = alerts
        /\ \A p \in Procs :
              (proc[p].pc = "al_create" /\ alerts' # alerts)
              => ~ \E i \in DOMAIN alerts :
                     /\ alerts[i].tutorId = alerts'[Len(alerts')].tutorId
                     /\ alerts[i].studentId = alerts'[Len(alerts')].studentId
                     /\ now - alerts[i].createdAt < COOLDOWN_HOURS
      ]_vars

\* a call for a student whose profile passes the gate, made hours after the
\* alerts of all linked tutors were created and read, has returned no alert
C29_ReadAlertsBlockedCall ==
    \E p \in Procs :
        /\ proc[p].pc = "returned"
        /\ proc[p].op = "createAlertsIfNeeded"
        /\ proc[p].value = <<>>
        /\ proc[p].arg \in DOMAIN profiles
        /\ AlertEligible(profiles[proc[p].arg])
        /\ TutorsOf(proc[p].arg) # {}
        /\ \A t \in TutorsOf(proc[p].arg) :
              \E i \in DOMAIN alerts :
                  /\ alerts[i].tutorId = t
                  /\ alerts[i].studentId = proc[p].arg
                  /\ alerts[i].isRead
                  /\ alerts[i].createdAt < now
                  /\ now - alerts[i].createdAt < COOLDOWN_HOURS
        /\ \A i \in DOMAIN alerts : alerts[i].isRead

-----------------------------------------------------------------------------
(* Extraction interrupted by a rejected write *)

\* how many of the payloads ps have their (interactionId, signalType) stored
StoredOf(ps) == Cardinality({k \in DOMAIN ps : DuplicateKey(ps[k])})

\* C30: extraction is not atomic.  When a write of the loop is rejected with
\* an error other than the duplicate key error, the call ends with that error,
\* the signals written before stay stored and the payload at hand and those
\* after it are not written by the call; a later extraction of the same
\* interaction counts the stored ones as skipped, creates the missing ones,
\* and leaves every kind of the interaction stored once.
C30_PartialExtractionCompletedLater ==
    [][ \A p \in Procs :
          /\ (/\ proc[p].pc = "ex_create"
              /\ proc'[p] # proc[p]
              /\ signals' = signals
              /\ ~DuplicateKey(proc[p].signalPayloads[proc[p].next]))
             => /\ proc'[p].pc = "threw"
                /\ proc'[p].value \in FaultCodes
                /\ StoredOf(proc[p].signalPayloads)
                      = proc[p].storedAtCall + proc[p].created
                /\ \A k \in DOMAIN proc[p].signalPayloads :
                      k < proc[p].next => DuplicateKey(proc[p].signalPayloads[k])
          /\ (/\ proc[p].pc = "ex_create"
              /\ proc'[p].pc = "returned")
             => LET ps == proc[p].signalPayloads
                IN  /\ proc'[p].value.skipped = proc[p].storedAtCall
                    /\ proc'[p].value.created = Len(ps) - proc[p].storedAtCall
                    /\ Len(proc'[p].value.signals) = proc'[p].value.created
                    /\ \A k \in DOMAIN ps :
                          Cardinality({d \in BagToSet(signals') :
                                          /\ d.interactionId = ps[k].interactionId
                                          /\ d.signalType = ps[k].signalType}) = 1
                    /\ \A d \in BagToSet(signals') : CopiesIn(d, signals') = 1
      ]_vars

\* an extraction of an interaction for which two rules fire has returned
\* created 1 and skipped 1: an earlier call stored the first signal and ended
\* at the second
C30_SecondCallCreatedTheRest ==
    \E p \in Procs :
        /\ proc[p].pc = "returned"
        /\ proc[p].op = "extractSignalsFromInteraction"
        /\ proc[p].value.created = 1
        /\ proc[p].value.skipped = 1
        /\ Cardinality({d \in BagToSet(signals) : d.interactionId = proc[p].arg}) = 2

====
